---- MODULE Spec2Model ----
(***************************************************************************)
(* EarnQuest Telegram bot (src/bot.py): the group moderation engine, the  *)
(* broadcast dispatcher and the intent responder.                          *)
(*                                                                         *)
(* State: the two ledgers of EarnQuestBot (message_counts, warned_users),  *)
(* the moderation settings (mod_settings) and the wall clock read by       *)
(* datetime.now().  One action per handler: a group message through        *)
(* moderate_message, the settings refresh job, and the passage of time.    *)
(* The outcome of every outbound call (role lookup, delete, send, mute,    *)
(* ban) is an input of the handler, drawn from the outcomes the platform   *)
(* can produce.  Spec explores the moderation engine, DispatcherSpec the   *)
(* poll cycles of the scheduled posts, ResponderSpec the message handler   *)
(* with the responder behind the moderation.                               *)
(***************************************************************************)
EXTENDS Integers, Sequences, FiniteSets, TLC

VARIABLES
    message_counts,   \* self.message_counts: user id -> list of timestamps
    warned_users,     \* self.warned_users: user id -> warning count
    mod_settings,     \* self.mod_settings
    now,              \* datetime.now(), in whole seconds
    handled,          \* number of group messages moderated so far (the sender
                      \* was not found privileged)
    spaced,           \* history: user -> number of its rate checks, each 61 s after the
                      \* one before; -1 once two of them came otherwise
    pending,          \* the backend: ids of the posts /bot/scheduled-posts/ lists
    delivered,        \* history: <<post id, chat>> -> number of successful sends
    marks,            \* history: post id -> number of mark-executed calls issued
    outbound,         \* history: number of calls the poll cycles have issued after the fetch
    cycles,           \* history: number of poll cycles run
    last_fetch,       \* history: outcome of the newest fetch, "none" before the first
    update,           \* the inbound group update in hand, NoUpdate before the first
    verdict,          \* what moderate_message answered for it: "True", "False", "raised";
                      \* "none" when it was not called, "pending" before the handler ran
    replies,          \* the replies the responder sent for it
    tasks,            \* the evaluations in flight on the event loop, each at a
                      \* suspension point (an await on an outbound call)
    evals,            \* history: number of evaluations started
    warned_in,        \* history: user -> the chats of its warnings on record
    token,            \* TELEGRAM_BOT_TOKEN: "unread" before the script reads the
                      \* environment, then "set" or "missing"
    phase,            \* where the process is: "main", "loop", "polling", "ended"
    attempt,          \* the attempt variable of the retry loop of __main__
    exit_status,      \* the exit status of the process, -1 while it runs
    waits,            \* history: the waits of the retry loop, in seconds
    last_outcome,     \* history: how the newest run_polling ended, "none" before
    user_sessions,    \* self.user_sessions: telegram id -> session
    commands,         \* history: number of private-chat requests handled
    endpoint_calls,   \* history: number of account endpoint calls issued
    last_reply        \* history: the newest reply to an account command

vars == <<message_counts, warned_users, mod_settings, now, handled, spaced,
          pending, delivered, marks, outbound, cycles, last_fetch,
          update, verdict, replies, tasks, evals, warned_in,
          token, phase, attempt, exit_status, waits, last_outcome,
          user_sessions, commands, endpoint_calls, last_reply>>

(* The state of the moderation engine, and the state the broadcast dispatcher
   works on: the two share no variable, each is explored on its own. *)
moderation_vars == <<message_counts, warned_users, mod_settings, now, handled, spaced>>
dispatcher_vars == <<pending, delivered, marks, outbound, cycles, last_fetch>>
responder_vars == <<update, verdict, replies>>
loop_vars == <<tasks, evals, warned_in>>
process_vars == <<token, phase, attempt, exit_status, waits, last_outcome,
                  user_sessions, commands, endpoint_calls, last_reply>>

----------------------------------------------------------------------------
(* Bounds of the model: messages moderated, and seconds into a day (the
   clock runs from 0 to one day and MaxOffset seconds) *)

MaxMsgs == 3
MaxOffset == 122

(* Poll cycles of the broadcast dispatcher *)
MaxCycles == 2

(* Group updates moderated in a run of the message handler with its responder *)
MaxUpdates == 2

(* Evaluations started on the event loop, and evaluations in flight at once *)
MaxEvals == 4
MaxTasks == 2

(* Evaluations started when the clock and the broadcast job run as well *)
LedgerEvals == 3

(* Private-chat requests handled in one run of the process *)
MaxCommands == 3

(* Program constants *)

SecondsPerDay == 86400
SpamMuteMinutes == 5
NoticeDelay == 10
DefaultMaxPerMinute == 5
DefaultMuteDuration == 30

(* warn_user_internal bans at this count (a stricter variant: one less) *)
BanThresholdLow == 3 - 1
BanThreshold == 3

(* check_spam keeps timestamps younger than this (a wider variant: 62 s) *)
WindowWide == 60 + 2
WindowSeconds == 60

Users == {"u1", "u2"}
Chats == {"c1", "c2"}

(* ChatMemberStatus values returned by get_chat_member, and "error" for a
   lookup that raises. *)
Lookups == {"administrator", "creator", "member", "error"}

(* member.status in [ADMINISTRATOR, OWNER]; a lookup that raises falls through
   the bare except.  Two variants: the owner forgotten, a failed lookup
   taken as privileged. *)
IsPrivilegedNobody(lookup) == FALSE
IsPrivilegedAdminOnly(lookup) == lookup = "administrator"
IsPrivilegedOrUnknown(lookup) == lookup \in {"administrator", "creator", "error"}
IsPrivileged(lookup) == lookup \in {"administrator", "creator"}

(* The outbound calls of one evaluation that can fail. *)
Calls == {"delete_message", "send_notice", "delete_notice", "ban_chat_member",
          "send_ban_notice", "restrict_chat_member", "send_mute_notice",
          "report_to_backend"}

(* At most one outbound call fails in one evaluation. *)
FaultSets == {{}} \cup {{c} : c \in Calls}

(* Elapsed time between two steps of the bot. *)
Delays == {61, SecondsPerDay}

----------------------------------------------------------------------------
(* Message texts: sequences of tokens.  A token is a maximal run of word
   characters, a URL prefix, or a single other character. *)

WordTokens == {"hello", "bob", "see", "x", "com", "earn",
               "how", "do", "i", "withdraw", "show", "faucet", "now", "What", "offerwall", "where", "EarnQuestBot", "get", "paid", "free", "hi", "claim", "payout"}

Texts ==
    { <<"see", " ", "WWW.", "x", ".", "com">>,
      <<"hello", " ", "@", "bob">>,
      <<"earn", " ", "@", " ", "x">> }

(* str.lower() on the tokens that occur with upper-case letters *)
Lower(tok) ==
    CASE tok = "WWW." -> "www."
      [] tok = "HTTP://" -> "http://"
      [] tok = "HTTPS://" -> "https://"
      [] tok = "T.ME/" -> "t.me/"
      [] OTHER -> tok

(* A variant of the link pattern without the @handle alternative *)
LinkMatchUrlsOnly(text) ==
    \E i \in 1..Len(text) :
        Lower(text[i]) \in {"http://", "https://", "www.", "t.me/"}

(* re.search(r'(https?://|www\.|t\.me/|@\w+)', text, re.IGNORECASE) *)
LinkMatch(text) ==
    \E i \in 1..Len(text) :
        \/ Lower(text[i]) \in {"http://", "https://", "www.", "t.me/"}
        \/ /\ text[i] = "@"
           /\ i < Len(text)
           /\ text[i + 1] \in WordTokens

Messages == [user : Users, chat : Chats, text : Texts, forward : BOOLEAN]

----------------------------------------------------------------------------
(* Outbound calls, in the order the handler issues them *)

Call(op, chat, user, fail) ==
    [op |-> op, chat |-> chat, user |-> user, event |-> "", n |-> 0,
     ok |-> op \notin fail]

(* report_to_backend(event_type, data, telegram_user_id, chat_id): errors of
   the sink are caught inside it *)
Report(event, n, chat, user, fail) ==
    [op |-> "report_to_backend", chat |-> chat, user |-> user, event |-> event,
     n |-> n, ok |-> "report_to_backend" \notin fail]

Sleep(chat, user) ==
    [op |-> "sleep", chat |-> chat, user |-> user, event |-> "",
     n |-> NoticeDelay, ok |-> TRUE]

(* d[k] = v on a dict (a variant that drops the other entries) *)
PutAlone(d, k, v) == [x \in {k} |-> v]
Put(d, k, v) == [x \in DOMAIN d \cup {k} |-> IF x = k THEN v ELSE d[x]]

(* del d[k] (a variant that forgets to: the entry stays) *)
DelNothing(d, k) == d
Del(d, k) == [x \in DOMAIN d \ {k} |-> d[x]]

(* list.append(t) (a variant that stores the timestamp twice) *)
StampTwice(window, t) == Append(Append(window, t), t)
Stamp(window, t) == Append(window, t)

----------------------------------------------------------------------------
(* timedelta.seconds: the seconds component of a (days, seconds) pair *)
TdSeconds(d) == d % SecondsPerDay

(* check_spam: prune, append, compare *)
CheckSpam(mc, settings, user, t) ==
    LET old    == IF user \in DOMAIN mc THEN mc[user] ELSE <<>>
        kept   == SelectSeq(old, LAMBDA ts : TdSeconds(t - ts) < WindowSeconds)
        window == Stamp(kept, t)
    IN  [message_counts |-> Put(mc, user, window),
         count |-> Len(window),
         spam |-> Len(window) > settings.max_messages_per_minute]

(* mute_user_internal: a failed restrict_chat_member is logged, not raised *)
MuteUserInternal(chat, user, minutes, fail) ==
    << [Call("restrict_chat_member", chat, user, fail) EXCEPT !.n = minutes] >>

(* ban_user_internal: a failed ban_chat_member is logged, not raised (a
   variant that bans in a fixed chat) *)
BanInFirstChat(chat, user, fail) ==
    << Call("ban_chat_member", "c1", user, fail) >>
BanUserInternal(chat, user, fail) ==
    << Call("ban_chat_member", chat, user, fail) >>

(* report_to_backend wraps its body in try/except Exception: a failure of
   the sink is logged and never raised to the caller (a variant that lets it
   out) *)
ReportRaisesOnFailure(report) == ~report.ok
ReportRaises(report) == FALSE

(* ban_user_internal catches the failure of ban_chat_member: nothing is
   raised into warn_user_internal (a variant that lets it out) *)
BanRaisesOnFailure(ban) == \E i \in DOMAIN ban : ~ban[i].ok
BanRaises(ban) == FALSE

(* A variant of the escalation ledger that is reached only when the try
   block before it went through *)
WarnUnlessFailed(wu, chat, user, fail) ==
    LET start == IF user \in DOMAIN wu THEN wu[user] ELSE 0
    IN  IF fail = {}
        THEN [warned_users |-> Put(wu, user, start + 1),
              calls |-> <<Report("user_warned", start + 1, chat, user, fail)>>,
              raised |-> FALSE]
        ELSE [warned_users |-> wu, calls |-> <<>>, raised |-> FALSE]

(* warn_user_internal *)
WarnUserInternal(wu, chat, user, fail) ==
    LET start    == IF user \in DOMAIN wu THEN wu[user] ELSE 0
        warnings == start + 1
        wu1      == Put(wu, user, warnings)
        ban      == BanUserInternal(chat, user, fail)
        notice   == Call("send_ban_notice", chat, user, fail)
        banned   == Report("user_banned", warnings, chat, user, fail)
        warned   == Report("user_warned", warnings, chat, user, fail)
    IN  IF warnings >= BanThreshold
        THEN IF BanRaises(ban)
             THEN [warned_users |-> wu1, calls |-> ban, raised |-> TRUE]
             ELSE IF notice.ok /\ ~ReportRaises(banned)
             THEN [warned_users |-> Del(wu1, user),
                   calls |-> ban \o <<notice, banned>>,
                   raised |-> FALSE]
             ELSE [warned_users |-> wu1,
                   calls |-> ban \o (IF notice.ok THEN <<notice, banned>> ELSE <<notice>>),
                   raised |-> TRUE]
        ELSE [warned_users |-> wu1,
              calls |-> <<warned>>,
              raised |-> ReportRaises(warned)]

(* The try block of the link branch: the first failing call skips the rest *)
LinkTry(m, fail) ==
    LET del    == Call("delete_message", m.chat, m.user, fail)
        notice == Call("send_notice", m.chat, m.user, fail)
        rep    == Report("message_deleted", 0, m.chat, m.user, fail)
        undo   == Call("delete_notice", m.chat, m.user, fail)
    IN  IF ~del.ok THEN <<del>>
        ELSE IF ~notice.ok THEN <<del, notice>>
        ELSE <<del, notice, rep, Sleep(m.chat, m.user), undo>>

(* The forward check: message.forward_date and not allow_forwards (a variant
   that denies every forward, whatever the setting) *)
ForwardDeniedAlways(settings, m) == m.forward
ForwardDenied(settings, m) == m.forward /\ ~settings.allow_forwards

(* A variant of the spam branch that only deletes the message *)
SpamTryDeleteOnly(m, fail) == << Call("delete_message", m.chat, m.user, fail) >>

(* The try block of the spam branch *)
SpamTry(m, fail) ==
    LET del    == Call("delete_message", m.chat, m.user, fail)
        mute   == MuteUserInternal(m.chat, m.user, SpamMuteMinutes, fail)
        notice == Call("send_mute_notice", m.chat, m.user, fail)
        rep    == [Report("user_muted", SpamMuteMinutes, m.chat, m.user, fail)
                    EXCEPT !.n = SpamMuteMinutes]
    IN  IF ~del.ok THEN <<del>>
        ELSE IF ~notice.ok THEN <<del>> \o mute \o <<notice>>
        ELSE <<del>> \o mute \o <<notice, rep>>

(* The rate windows after the link branch: it returns before check_spam is
   reached (a variant that counts the message first) *)
CountedBeforeLinkCheck(mc, settings, user, t) ==
    CheckSpam(mc, settings, user, t).message_counts
WindowsAfterLink(mc, settings, user, t) == mc

(* moderate_message.  ret is "True", "False" or "raised" *)
ModerateMessage(mc, wu, settings, t, m, lookup, fail) ==
    LET idle == [message_counts |-> mc, warned_users |-> wu, calls |-> <<>>,
                 checked |-> FALSE, spam |-> FALSE, count |-> 0]
    IN  IF IsPrivileged(lookup)
        THEN idle @@ [ret |-> "False"]
        ELSE IF ~settings.allow_links /\ LinkMatch(m.text)
        THEN LET w == WarnUserInternal(wu, m.chat, m.user, fail)
             IN  [message_counts |-> WindowsAfterLink(mc, settings, m.user, t),
                  warned_users |-> w.warned_users,
                  calls |-> LinkTry(m, fail) \o w.calls,
                  checked |-> FALSE, spam |-> FALSE, count |-> 0,
                  ret |-> IF w.raised THEN "raised" ELSE "True"]
        ELSE LET c == CheckSpam(mc, settings, m.user, t)
                 base == [message_counts |-> c.message_counts,
                          warned_users |-> wu,
                          checked |-> TRUE, spam |-> c.spam, count |-> c.count]
             IN  IF c.spam
                 THEN base @@ [calls |-> SpamTry(m, fail), ret |-> "True"]
                 ELSE IF ForwardDenied(settings, m)
                 THEN base @@ [calls |-> <<Call("delete_message", m.chat, m.user, fail)>>,
                               ret |-> "True"]
                 ELSE base @@ [calls |-> <<>>, ret |-> "False"]

----------------------------------------------------------------------------
(* The broadcast dispatcher: fetch_scheduled_posts, execute_scheduled_post *)

Groups == {"g1", "g2"}

(* The scheduled posts of the backend, in the order it lists them: one with
   two targets, one with no target, one with an image and one target. *)
PostTable ==
    << [id |-> "p1", content |-> "text", image_url |-> FALSE,
        target_groups |-> <<"g1", "g2">>],
       [id |-> "p2", content |-> "text", image_url |-> FALSE,
        target_groups |-> << >>],
       [id |-> "p3", content |-> "text", image_url |-> TRUE,
        target_groups |-> <<"g2">>] >>

(* A post the backend lists with "content": null, ahead of the others *)
MalformedPost ==
    [id |-> "p0", content |-> "null", image_url |-> FALSE, target_groups |-> <<"g1">>]

(* content.replace('{website}', ...) raises on a content that is None *)
Malformed(post) == post.content = "null"

PostIds == {PostTable[i].id : i \in DOMAIN PostTable}
PostTargets ==
    UNION { {<<PostTable[i].id, PostTable[i].target_groups[j]>> :
                j \in DOMAIN PostTable[i].target_groups} : i \in DOMAIN PostTable }

(* Outcomes of GET /bot/scheduled-posts/: a 200 answer, an exception of the
   transport, a non-200 answer *)
FetchOutcomes == {"200", "transport_error", "500"}

(* error or not response or response.status_code != 200 (a variant that
   takes every answer of the server as a success) *)
FetchOkAnyAnswer(fetch) == fetch # "transport_error"
FetchOk(fetch) == fetch = "200"

(* response.json(): the pending posts in the order of the listing *)
Listing(ids) ==
    (IF MalformedPost.id \in ids THEN << MalformedPost >> ELSE << >>)
      \o SelectSeq(PostTable, LAMBDA post : post.id \in ids)

(* The targets one cycle sends a post to (a variant that skips the chats
   that were served before) *)
TargetsNotServed(post) ==
    SelectSeq(post.target_groups, LAMBDA g : delivered[<<post.id, g>>] = 0)
TargetGroups(post) == post.target_groups

(* What is left of the fan-out after one send (a variant that gives up at the
   first failure) *)
RestIfSent(ok, rest) == IF ok THEN rest ELSE << >>
RestOfTargets(ok, rest) == rest

(* The event reported for one send (a variant that reports every attempt as
   sent) *)
SendEventAlwaysSent(ok) == "post_sent"
SendEvent(ok) == IF ok THEN "post_sent" ELSE "error"

(* One target: send_photo or send_message, then the report of the outcome *)
SendToGroup(post, g, down, sink) ==
    LET ok == g \notin down
    IN  << [op |-> IF post.image_url THEN "send_photo" ELSE "send_message",
            post |-> post.id, chat |-> g, event |-> "", ok |-> ok],
           [op |-> "report_to_backend", post |-> post.id, chat |-> g,
            event |-> SendEvent(ok), ok |-> sink] >>

(* for group_id in target_groups: try ... except ... *)
RECURSIVE FanOut(_, _, _, _)
FanOut(post, targets, down, sink) ==
    IF targets = << >> THEN << >>
    ELSE SendToGroup(post, Head(targets), down, sink)
           \o FanOut(post, RestOfTargets(Head(targets) \notin down, Tail(targets)), down, sink)

(* A variant of the mark-executed step that forgets the call *)
NoMark(post, mark_fail) == << >>
(* self.api_request('POST', .../mark-executed/): the answer is not looked at *)
MarkExecuted(post, mark_fail) ==
    << [op |-> "mark_executed", post |-> post.id, chat |-> "", event |-> "",
        ok |-> post.id \notin mark_fail] >>

(* execute_scheduled_post: an exception before the fan-out is caught by the
   outer try and logged, nothing is sent and nothing is marked *)
ExecuteScheduledPost(post, down, mark_fail, sink) ==
    IF Malformed(post) THEN << >>
    ELSE FanOut(post, TargetGroups(post), down, sink) \o MarkExecuted(post, mark_fail)

(* for post in posts: the posts left after one post; the exception of a post
   is caught inside execute_scheduled_post (a variant where it ends the loop) *)
RestUnlessError(post, rest) == IF Malformed(post) THEN << >> ELSE rest
RestOfPosts(post, rest) == rest

RECURSIVE ExecuteAll(_, _, _, _)
ExecuteAll(posts, down, mark_fail, sink) ==
    IF posts = << >> THEN << >>
    ELSE ExecuteScheduledPost(Head(posts), down, mark_fail, sink)
           \o ExecuteAll(RestOfPosts(Head(posts), Tail(posts)), down, mark_fail, sink)

(* fetch_scheduled_posts: the calls of one poll cycle after the fetch.  down
   is the set of chats the sends fail on, mark_fail the posts whose
   mark-executed call fails, sink whether the event sink answers. *)
FetchScheduledPosts(ids, fetch, down, mark_fail, sink) ==
    IF ~FetchOk(fetch) THEN << >>
    ELSE ExecuteAll(Listing(ids), down, mark_fail, sink)

(* The dispatcher at construction: nothing is scheduled yet *)
DispatcherIdle ==
    /\ pending = {}
    /\ delivered = [pt \in PostTargets |-> 0]
    /\ marks = [id \in PostIds |-> 0]
    /\ outbound = 0
    /\ cycles = 0
    /\ last_fetch = "none"

----------------------------------------------------------------------------
(* The intent responder: handle_group_message, intelligent_response.  The
   responder searches the text character by character, so the tokens of a
   text are spelled out. *)

Chars(tok) ==
    CASE tok = "how" -> <<"h", "o", "w">>
      [] tok = " " -> <<" ">>
      [] tok = "do" -> <<"d", "o">>
      [] tok = "i" -> <<"i">>
      [] tok = "withdraw" -> <<"w", "i", "t", "h", "d", "r", "a", "w">>
      [] tok = "?" -> <<"?">>
      [] tok = "show" -> <<"s", "h", "o", "w">>
      [] tok = "faucet" -> <<"f", "a", "u", "c", "e", "t">>
      [] tok = "now" -> <<"n", "o", "w">>
      [] tok = "What" -> <<"W", "h", "a", "t">>
      [] tok = "offerwall" -> <<"o", "f", "f", "e", "r", "w", "a", "l", "l">>
      [] tok = "where" -> <<"w", "h", "e", "r", "e">>
      [] tok = "@" -> <<"@">>
      [] tok = "EarnQuestBot" -> <<"E", "a", "r", "n", "Q", "u", "e", "s", "t", "B", "o", "t">>
      [] tok = "get" -> <<"g", "e", "t">>
      [] tok = "paid" -> <<"p", "a", "i", "d">>
      [] tok = "free" -> <<"f", "r", "e", "e">>
      [] tok = "hi" -> <<"h", "i">>
      [] tok = "claim" -> <<"c", "l", "a", "i", "m">>
      [] tok = "payout" -> <<"p", "a", "y", "o", "u", "t">>
      [] tok = "see" -> <<"s", "e", "e">>
      [] tok = "WWW." -> <<"W", "W", "W", ".">>
      [] tok = "x" -> <<"x">>
      [] tok = "." -> <<".">>
      [] tok = "com" -> <<"c", "o", "m">>

RECURSIVE TextChars(_)
TextChars(text) ==
    IF text = << >> THEN << >> ELSE Chars(Head(text)) \o TextChars(Tail(text))

(* str.lower() on the letters that occur in upper case *)
LowerChar(c) ==
    CASE c = "W" -> "w"
      [] c = "E" -> "e"
      [] c = "Q" -> "q"
      [] c = "B" -> "b"
      [] OTHER -> c

TextLower(chars) == [i \in 1..Len(chars) |-> LowerChar(chars[i])]

(* kw in text *)
Contains(chars, kw) ==
    \E i \in 0..(Len(chars) - Len(kw)) : \A j \in 1..Len(kw) : chars[i + j] = kw[j]

(* The texts of the group updates *)
ChatTexts ==
    { <<"how", " ", "do", " ", "i", " ", "withdraw", "?">>,
      <<"show", " ", "faucet">>,
      <<"withdraw", " ", "now">>,
      <<"What", " ", "offerwall">>,
      <<"where", " ", "faucet", " ", "withdraw">>,
      <<"@", "EarnQuestBot", " ", "get", " ", "paid", " ", "free">>,
      <<"@", "EarnQuestBot", " ", "hi">>,
      <<"hi">>,
      <<"free", " ", "claim", " ", "payout">>,
      <<"see", " ", "WWW.", "x", ".", "com">> }

(* self.knowledge_base: the keys in the order of the dict; the template of a
   key is named by the key *)
KnowledgeBase ==
    << [key |-> "withdraw", chars |-> <<"w", "i", "t", "h", "d", "r", "a", "w">>],
       [key |-> "faucet", chars |-> <<"f", "a", "u", "c", "e", "t">>],
       [key |-> "referral", chars |-> <<"r", "e", "f", "e", "r", "r", "a", "l">>],
       [key |-> "task", chars |-> <<"t", "a", "s", "k">>],
       [key |-> "survey", chars |-> <<"s", "u", "r", "v", "e", "y">>],
       [key |-> "offerwall", chars |-> <<"o", "f", "f", "e", "r", "w", "a", "l", "l">>],
       [key |-> "offer", chars |-> <<"o", "f", "f", "e", "r">>],
       [key |-> "payment", chars |-> <<"p", "a", "y", "m", "e", "n", "t">>],
       [key |-> "help", chars |-> <<"h", "e", "l", "p">>],
       [key |-> "earn", chars |-> <<"e", "a", "r", "n">>],
       [key |-> "minimum", chars |-> <<"m", "i", "n", "i", "m", "u", "m">>],
       [key |-> "balance", chars |-> <<"b", "a", "l", "a", "n", "c", "e">>],
       [key |-> "login", chars |-> <<"l", "o", "g", "i", "n">>],
       [key |-> "register", chars |-> <<"r", "e", "g", "i", "s", "t", "e", "r">>],
       [key |-> "start", chars |-> <<"s", "t", "a", "r", "t">>] >>

KnowledgeKeys == {KnowledgeBase[i].key : i \in DOMAIN KnowledgeBase}

(* keywords_map of intelligent_response, in the order of the dict *)
KeywordsMap ==
    << [key |-> "withdraw", keywords |->
          << <<"w", "i", "t", "h", "d", "r", "a", "w">>,
             <<"p", "a", "y", "o", "u", "t">>,
             <<"c", "a", "s", "h", " ", "o", "u", "t">>,
             <<"p", "a", "y", "m", "e", "n", "t">>,
             <<"g", "e", "t", " ", "m", "o", "n", "e", "y">>,
             <<"g", "e", "t", " ", "p", "a", "i", "d">> >>],
       [key |-> "faucet", keywords |->
          << <<"f", "a", "u", "c", "e", "t">>,
             <<"f", "r", "e", "e">>,
             <<"c", "l", "a", "i", "m">> >>],
       [key |-> "referral", keywords |->
          << <<"r", "e", "f", "e", "r", "r", "a", "l">>,
             <<"r", "e", "f", "e", "r">>,
             <<"i", "n", "v", "i", "t", "e">>,
             <<"f", "r", "i", "e", "n", "d">>,
             <<"c", "o", "m", "m", "i", "s", "s", "i", "o", "n">> >>],
       [key |-> "task", keywords |->
          << <<"t", "a", "s", "k">>,
             <<"j", "o", "b">>,
             <<"w", "o", "r", "k">>,
             <<"c", "o", "m", "p", "l", "e", "t", "e">> >>],
       [key |-> "survey", keywords |->
          << <<"s", "u", "r", "v", "e", "y">>,
             <<"o", "f", "f", "e", "r", "w", "a", "l", "l">>,
             <<"o", "f", "f", "e", "r">> >>],
       [key |-> "payment", keywords |->
          << <<"p", "a", "y", "p", "a", "l">>,
             <<"u", "s", "d", "t">>,
             <<"c", "r", "y", "p", "t", "o">>,
             <<"l", "i", "t", "e", "c", "o", "i", "n">>,
             <<"s", "k", "r", "i", "l", "l">> >>],
       [key |-> "help", keywords |->
          << <<"h", "e", "l", "p">>,
             <<"s", "u", "p", "p", "o", "r", "t">>,
             <<"p", "r", "o", "b", "l", "e", "m">>,
             <<"i", "s", "s", "u", "e">>,
             <<"c", "o", "n", "t", "a", "c", "t">> >>],
       [key |-> "earn", keywords |->
          << <<"e", "a", "r", "n">>,
             <<"m", "o", "n", "e", "y">>,
             <<"m", "a", "k", "e", " ", "m", "o", "n", "e", "y">>,
             <<"h", "o", "w", " ", "t", "o">>,
             <<"s", "t", "a", "r", "t">> >>],
       [key |-> "minimum", keywords |->
          << <<"m", "i", "n", "i", "m", "u", "m">>,
             <<"m", "i", "n">>,
             <<"r", "e", "q", "u", "i", "r", "e", "m", "e", "n", "t">>,
             <<"n", "e", "e", "d">>,
             <<"q", "u", "a", "l", "i", "f", "y", "i", "n", "g">> >>],
       [key |-> "balance", keywords |->
          << <<"b", "a", "l", "a", "n", "c", "e">>,
             <<"c", "h", "e", "c", "k">>,
             <<"h", "o", "w", " ", "m", "u", "c", "h">> >>],
       [key |-> "login", keywords |->
          << <<"l", "o", "g", "i", "n">>,
             <<"s", "i", "g", "n", " ", "i", "n">>,
             <<"l", "o", "g", " ", "i", "n">>,
             <<"a", "c", "c", "e", "s", "s">> >>],
       [key |-> "register", keywords |->
          << <<"r", "e", "g", "i", "s", "t", "e", "r">>,
             <<"s", "i", "g", "n", " ", "u", "p">>,
             <<"c", "r", "e", "a", "t", "e", " ", "a", "c", "c", "o", "u", "n", "t">>,
             <<"j", "o", "i", "n">> >>] >>

(* (await context.bot.get_me()).username *)
BotUsername == <<"E", "a", "r", "n", "Q", "u", "e", "s", "t", "B", "o", "t">>

(* '?' in text or 'how' in text or 'what' in text or 'where' in text (a
   variant that takes every text for a question) *)
AlwaysQuestion(chars) == TRUE
HasQuestionMarker(chars) ==
    \/ Contains(chars, <<"?">>)
    \/ Contains(chars, <<"h", "o", "w">>)
    \/ Contains(chars, <<"w", "h", "a", "t">>)
    \/ Contains(chars, <<"w", "h", "e", "r", "e">>)

Reply(template) == [op |-> "reply_text", template |-> template]

(* for keyword, response in self.knowledge_base.items(): the first key that
   is in the text, when the text is a question; "" when the loop ends *)
RECURSIVE FirstKey(_, _)
FirstKey(chars, i) ==
    IF i > Len(KnowledgeBase) THEN ""
    ELSE IF Contains(chars, KnowledgeBase[i].chars) /\ HasQuestionMarker(chars)
    THEN KnowledgeBase[i].key
    ELSE FirstKey(chars, i + 1)

(* sum(1 for kw in keywords if kw in text) *)
RECURSIVE Score(_, _)
Score(chars, keywords) ==
    IF keywords = << >> THEN 0
    ELSE (IF Contains(chars, Head(keywords)) THEN 1 ELSE 0) + Score(chars, Tail(keywords))

(* if score > best_score (a variant that also takes an equal score) *)
BetterOrEqual(score, best_score) == score >= best_score
Better(score, best_score) == score > best_score

(* for key, keywords in keywords_map.items() *)
RECURSIVE BestMatch(_, _, _, _)
BestMatch(chars, i, best_match, best_score) ==
    IF i > Len(KeywordsMap) THEN best_match
    ELSE LET score == Score(chars, KeywordsMap[i].keywords)
         IN  IF Better(score, best_score)
             THEN BestMatch(chars, i + 1, KeywordsMap[i].key, score)
             ELSE BestMatch(chars, i + 1, best_match, best_score)

(* intelligent_response: "" stands for best_match = None *)
IntelligentResponse(chars) ==
    LET best_match == BestMatch(chars, 1, "", 0)
    IN  IF best_match # "" /\ best_match \in KnowledgeKeys
        THEN << Reply(best_match) >>
        ELSE << Reply("capabilities") >>

(* The inbound group updates: a text message, a command, a photo with a
   caption (the text of m is then the caption). *)
Kinds == {"text", "command", "photo"}

Updates ==
    [kind : Kinds,
     m : [user : {"u1"}, chat : {"c1"}, text : ChatTexts, forward : BOOLEAN],
     lookup : {"member", "administrator"},
     reply_to_bot : BOOLEAN]

NoUpdate == [kind |-> "none"]

(* message.text, lowered: a photo has no text *)
MessageText(u) == IF u.kind = "photo" THEN << >> ELSE TextLower(TextChars(u.m.text))

(* reply_to_message is from the bot, or '@username' is in the text *)
BotMentioned(u) ==
    \/ u.reply_to_bot
    \/ Contains(MessageText(u), <<"@">> \o TextLower(BotUsername))

(* handle_group_message: moderation first, then the responder *)
HandleGroupMessage(mc, wu, settings, t, u, fail) ==
    LET r == ModerateMessage(mc, wu, settings, t, u.m, u.lookup, fail)
        chars == MessageText(u)
        key == FirstKey(chars, 1)
    IN  [message_counts |-> r.message_counts,
         warned_users |-> r.warned_users,
         verdict |-> r.ret,
         replies |-> IF r.ret # "False" THEN << >>
                     ELSE IF ~BotMentioned(u)
                     THEN (IF key = "" THEN << >> ELSE << Reply(key) >>)
                     ELSE IntelligentResponse(chars)]

(* MessageHandler(filters.TEXT & ~filters.COMMAND, self.handle_message) *)
FilterText(u) == u.kind = "text"

(* The handler of a group update: handle_message for the updates that pass
   the filter, nothing for the others *)
HandleUpdate(mc, wu, settings, t, u, fail) ==
    IF FilterText(u)
    THEN HandleGroupMessage(mc, wu, settings, t, u, fail)
    ELSE [message_counts |-> mc, warned_users |-> wu,
          verdict |-> "none", replies |-> << >>]

(* No update has arrived *)
ResponderIdle ==
    /\ update = NoUpdate
    /\ verdict = "none"
    /\ replies = << >>

----------------------------------------------------------------------------
(* The event loop: evaluations in flight *)

Slots == 1..MaxTasks

IdleTask == [pc |-> "idle"]

(* Application.builder().token(...).build(): concurrent_updates is left at
   its default, the updates are processed one after another (a variant that
   turns it on) *)
ConcurrentUpdatesOn == TRUE
ConcurrentUpdates == FALSE

(* No evaluation has started *)
LoopIdle ==
    /\ tasks = [slot \in Slots |-> IdleTask]
    /\ evals = 0
    /\ warned_in = [u \in Users |-> << >>]

----------------------------------------------------------------------------
(* The process: __main__, EarnQuestBot.run, setup_handlers *)

(* max_retries = 3 and wait_time = (attempt + 1) * 10 *)
MaxRetries == 3
BackoffStep == 10

(* How application.run_polling ends: it returns after a stop signal, or
   raises telegram.error.Conflict, or raises another error *)
PollOutcomes == {"stopped", "conflict", "error"}

(* run() wraps run_polling in try/except Exception and logs: nothing is
   raised to the retry loop (a variant without the try) *)
RunRaisesErrors(outcome) == outcome # "stopped"
RunRaises(outcome) == FALSE

(* setup_handlers: False without a token, False when building the
   application raises, True otherwise *)
SetupHandlers(tok, built) == tok = "set" /\ built

(* "Conflict" in str(e) and attempt < max_retries - 1 *)
Retried(outcome, n) == outcome = "conflict" /\ n < MaxRetries - 1

----------------------------------------------------------------------------
(* The account commands of the private chat *)

AccountCommands == {"balance", "referral", "tasks", "leaderboard", "support"}

(* The session tokens the login endpoint hands out: "" is a missing token *)
Tokens == {"", "tok"}

(* get_user_token: the token of the user's session, none without a session *)
GetUserToken(sessions, user) ==
    IF user \in DOMAIN sessions THEN sessions[user].token ELSE ""

(* The endpoint each command calls *)
Endpoint(cmd) ==
    CASE cmd = "balance"     -> "/profile/"
      [] cmd = "referral"    -> "/my-referral-info/"
      [] cmd = "tasks"       -> "/tasks/"
      [] cmd = "leaderboard" -> "/leaderboard/top-earners/"
      [] cmd = "support"     -> "/support/tickets/"

(* The replies that send the user to /login *)
LoginPrompts == {"please_login_first", "login_required"}

(* balance_command, referral_command, leaderboard_command, tasks_command and
   receive_support_message: the endpoint calls and the reply.  answered is
   whether the endpoint answers with success. *)
AccountCommand(sessions, user, cmd, answered) ==
    LET tok  == GetUserToken(sessions, user)
        call == << [endpoint |-> Endpoint(cmd), token |-> tok] >>
    IN  IF cmd = "support"
        THEN IF tok # ""
             THEN [calls |-> call,
                   reply |-> IF answered THEN "ticket_created" ELSE "message_received"]
             ELSE [calls |-> << >>, reply |-> "message_received"]
        ELSE IF tok = ""
             THEN [calls |-> << >>,
                   reply |-> IF cmd = "tasks" THEN "login_required"
                             ELSE "please_login_first"]
             ELSE [calls |-> call,
                   reply |-> IF answered THEN "result" ELSE "failed"]

(* The script has not started *)
ProcessIdle ==
    /\ token = "unread"
    /\ phase = "main"
    /\ attempt = 0
    /\ exit_status = -1
    /\ waits = << >>
    /\ last_outcome = "none"
    /\ user_sessions = << >>
    /\ commands = 0
    /\ endpoint_calls = 0
    /\ last_reply = "none"

----------------------------------------------------------------------------
(* The settings refresh *)

(* self.mod_settings of __init__, the keys the moderation reads *)
DefaultSettings ==
    [allow_links |-> FALSE,
     allow_forwards |-> TRUE,
     max_messages_per_minute |-> DefaultMaxPerMinute,
     mute_duration_minutes |-> DefaultMuteDuration]

(* Two variants of the merge: one that stops after the first key, one that
   lays the fetched object over the defaults instead of the current values *)
MergeHalf(settings, upd) ==
    [k \in DOMAIN settings |->
        IF k = "max_messages_per_minute" /\ k \in DOMAIN upd THEN upd[k] ELSE settings[k]]
MergeOverDefaults(settings, upd) ==
    [k \in DOMAIN settings \cup DOMAIN upd |->
        IF k \in DOMAIN upd THEN upd[k] ELSE DefaultSettings[k]]

(* self.mod_settings.update(settings) *)
Merge(settings, upd) ==
    [k \in DOMAIN settings \cup DOMAIN upd |->
        IF k \in DOMAIN upd THEN upd[k] ELSE settings[k]]

(* if response and response.status_code == 200 *)
SettingsFetchOk(fetch) == fetch = "200"

(* fetch_mod_settings: the settings after a refresh with the given outcome
   of GET /bot/settings/ and the object it answered with *)
FetchedSettings(settings, fetch, upd) ==
    IF SettingsFetchOk(fetch) THEN Merge(settings, upd) ELSE settings

----------------------------------------------------------------------------
(* The state after EarnQuestBot.__init__ *)

Init ==
    /\ message_counts = << >>
    /\ warned_users = << >>
    /\ mod_settings = [allow_links |-> FALSE,
                       allow_forwards |-> TRUE,
                       max_messages_per_minute |-> DefaultMaxPerMinute,
                       mute_duration_minutes |-> DefaultMuteDuration]
    /\ now = 0
    /\ handled = 0
    /\ spaced = [u \in Users |-> 0]
    /\ DispatcherIdle
    /\ ResponderIdle
    /\ LoopIdle
    /\ ProcessIdle

(* Time passes between two handlers. *)
Tick ==
    \E d \in Delays :
        /\ (now + d) % SecondsPerDay <= MaxOffset
        /\ now + d <= SecondsPerDay + MaxOffset
        /\ now' = now + d
        /\ UNCHANGED <<message_counts, warned_users, mod_settings, handled, spaced>>
        /\ UNCHANGED <<dispatcher_vars, responder_vars, loop_vars, process_vars>>

(* The objects the settings endpoint answers with. *)
SettingsUpdates ==
    { [max_messages_per_minute |-> 1, allow_forwards |-> FALSE],
      [max_messages_per_minute |-> 1, allow_forwards |-> FALSE,
       allow_links |-> TRUE, mute_duration_minutes |-> 10] }

(* fetch_mod_settings: dict.update on a 200 answer, nothing otherwise *)
FetchModSettings ==
    \E fetch \in FetchOutcomes, upd \in SettingsUpdates :
        /\ mod_settings' = FetchedSettings(mod_settings, fetch, upd)
        /\ UNCHANGED <<message_counts, warned_users, now, handled, spaced>>
        /\ UNCHANGED <<dispatcher_vars, responder_vars, loop_vars, process_vars>>

(* moderate_message on message m in the current state *)
Eval(m, lookup, fail) ==
    ModerateMessage(message_counts, warned_users, mod_settings, now, m, lookup, fail)

(* The outcomes of the outbound calls of one evaluation: no call fails, or
   one of the calls the evaluation issues fails. *)
FaultsOf(m, lookup) ==
    LET r0 == Eval(m, lookup, {})
    IN  {{}} \cup {{r0.calls[i].op} : i \in {j \in DOMAIN r0.calls : r0.calls[j].op \in Calls}}

(* The newest timestamp stored for a user, -1 when there is none *)
Newest(user) ==
    IF user \in DOMAIN message_counts /\ message_counts[user] # <<>>
    THEN message_counts[user][Len(message_counts[user])]
    ELSE -1

(* handle_group_message -> moderate_message on one group message *)
GroupMessage ==
    \E m \in Messages, lookup \in Lookups :
      \E fail \in FaultsOf(m, lookup) :
        LET r == Eval(m, lookup, fail)
        IN  /\ handled < MaxMsgs
            /\ handled' = IF IsPrivileged(lookup) THEN handled ELSE handled + 1
            /\ message_counts' = r.message_counts
            /\ warned_users' = r.warned_users
            /\ spaced' = IF r.checked
                         THEN [spaced EXCEPT ![m.user] =
                                 IF @ >= 0 /\ (Newest(m.user) >= 0 => now - Newest(m.user) = 61)
                                 THEN @ + 1 ELSE -1]
                         ELSE spaced
            /\ UNCHANGED <<mod_settings, now>>
            /\ UNCHANGED <<dispatcher_vars, responder_vars, loop_vars, process_vars>>

Next == Tick \/ FetchModSettings \/ GroupMessage

Spec == Init /\ [][Next]_vars

----------------------------------------------------------------------------
(* The poll cycles of the dispatcher against the backend *)

(* The backend schedules a post that was never scheduled before. *)
SchedulePost ==
    \E id \in PostIds :
        /\ id \notin pending
        /\ marks[id] = 0
        /\ pending' = pending \cup {id}
        /\ UNCHANGED <<delivered, marks, outbound, cycles, last_fetch>>
        /\ UNCHANGED <<moderation_vars, responder_vars, loop_vars, process_vars>>

(* One poll cycle in the current state of the backend *)
Cycle(fetch, down, mark_fail, sink) ==
    FetchScheduledPosts(pending, fetch, down, mark_fail, sink)

(* scheduled_post_job.  The backend stops listing a post when its
   mark-executed call arrived. *)
ScheduledPostJob ==
    \E fetch \in FetchOutcomes, down \in SUBSET Groups,
       mark_fail \in SUBSET pending, sink \in BOOLEAN :
        LET calls == Cycle(fetch, down, mark_fail, sink)
            sent(pt) == Cardinality({i \in DOMAIN calls :
                            /\ calls[i].op \in {"send_message", "send_photo"}
                            /\ calls[i].ok
                            /\ <<calls[i].post, calls[i].chat>> = pt})
            marked(id) == {i \in DOMAIN calls :
                            calls[i].op = "mark_executed" /\ calls[i].post = id}
        IN  /\ cycles < MaxCycles
            /\ cycles' = cycles + 1
            /\ last_fetch' = fetch
            /\ outbound' = outbound + Len(calls)
            /\ delivered' = [pt \in PostTargets |-> delivered[pt] + sent(pt)]
            /\ marks' = [id \in PostIds |-> marks[id] + Cardinality(marked(id))]
            /\ pending' = {id \in pending : \A i \in marked(id) : ~calls[i].ok}
            /\ UNCHANGED <<moderation_vars, responder_vars, loop_vars, process_vars>>

DispatcherNext == SchedulePost \/ ScheduledPostJob

DispatcherSpec == Init /\ [][DispatcherNext]_vars

----------------------------------------------------------------------------
(* The message handler with its responder *)

(* A group update arrives. *)
ReceiveUpdate ==
    \E u \in Updates :
        /\ verdict # "pending"
        /\ handled < MaxUpdates
        /\ update' = u
        /\ verdict' = "pending"
        /\ replies' = << >>
        /\ UNCHANGED <<moderation_vars, dispatcher_vars, loop_vars, process_vars>>

(* The handler runs on the update in hand. *)
HandleMessage ==
    /\ verdict = "pending"
    /\ \E fail \in FaultsOf(update.m, update.lookup) :
          LET h == HandleUpdate(message_counts, warned_users, mod_settings, now, update, fail)
          IN  /\ verdict' = h.verdict
              /\ replies' = h.replies
              /\ message_counts' = h.message_counts
              /\ warned_users' = h.warned_users
              /\ handled' = IF h.verdict = "none" \/ IsPrivileged(update.lookup)
                             THEN handled ELSE handled + 1
    /\ UNCHANGED <<mod_settings, now, spaced, update, dispatcher_vars, loop_vars, process_vars>>

(* The settings refresh between two updates *)
RefreshBetweenUpdates ==
    /\ verdict # "pending"
    /\ \E upd \in SettingsUpdates : mod_settings' = Merge(mod_settings, upd)
    /\ UNCHANGED <<message_counts, warned_users, now, handled, spaced,
                   dispatcher_vars, responder_vars, loop_vars, process_vars>>

ResponderNext == ReceiveUpdate \/ HandleMessage \/ RefreshBetweenUpdates

ResponderSpec == Init /\ [][ResponderNext]_vars

----------------------------------------------------------------------------
(* The event loop: one evaluation of moderate_message runs from one
   suspension point to the next; between two of its blocks the timer jobs
   and the clock may run.  The awaits of one enforcement (delete, notice,
   delay, notice removal) are one suspension: nothing is read or written
   between them. *)

InFlight == {slot \in Slots : tasks[slot].pc # "idle"}

EnforcementPcs == {"link_enforce", "ban_enforce", "spam_enforce", "forward_delete"}

(* The update fetcher hands an update to handle_message: with
   concurrent_updates off, only when the handler of the one before has
   returned.  The evaluation suspends on get_chat_member. *)
StartEvaluation(m, lookup) ==
    /\ evals < MaxEvals
    /\ ~ConcurrentUpdates => InFlight = {}
    /\ \E slot \in Slots \ InFlight :
          /\ \A other \in Slots \ InFlight : slot <= other
          /\ tasks' = [tasks EXCEPT ![slot] =
                          [pc |-> "lookup", m |-> m, lookup |-> lookup,
                           warnings |-> 0, reads |-> << >>]]
    /\ evals' = evals + 1
    /\ UNCHANGED <<moderation_vars, dispatcher_vars, responder_vars, warned_in, process_vars>>

UpdateArrives ==
    \E m \in Messages, lookup \in {"member", "administrator"} : StartEvaluation(m, lookup)

(* From the answer of get_chat_member to the next await: the privilege
   test, the link test, check_spam and the forward test *)
AfterLookup ==
    \E slot \in InFlight :
        LET t  == tasks[slot]
            r1 == Put(t.reads, "allow_links", mod_settings.allow_links)
            c  == CheckSpam(message_counts, mod_settings, t.m.user, now)
            r2 == Put(r1, "max_messages_per_minute", mod_settings.max_messages_per_minute)
            r3 == Put(r2, "allow_forwards", mod_settings.allow_forwards)
            to(pc, reads) == [tasks EXCEPT ![slot] = [t EXCEPT !.pc = pc, !.reads = reads]]
        IN  /\ t.pc = "lookup"
            /\ IF IsPrivileged(t.lookup)
               THEN /\ tasks' = [tasks EXCEPT ![slot] = IdleTask]
                    /\ UNCHANGED message_counts
               ELSE IF ~mod_settings.allow_links /\ LinkMatch(t.m.text)
               THEN /\ tasks' = to("link_enforce", r1)
                    /\ UNCHANGED message_counts
               ELSE /\ message_counts' = c.message_counts
                    /\ tasks' = IF c.spam THEN to("spam_enforce", r2)
                                 ELSE IF ForwardDenied(mod_settings, t.m)
                                 THEN to("forward_delete", r3)
                                 ELSE [tasks EXCEPT ![slot] = IdleTask]
            /\ UNCHANGED <<warned_users, mod_settings, now, handled, spaced>>
            /\ UNCHANGED <<dispatcher_vars, responder_vars, evals, warned_in, process_vars>>

(* After the try block of the link branch: warn_user_internal up to its
   first await *)
AfterLinkEnforce ==
    \E slot \in InFlight :
        LET t == tasks[slot]
            start == IF t.m.user \in DOMAIN warned_users THEN warned_users[t.m.user] ELSE 0
            warnings == start + 1
        IN  /\ t.pc = "link_enforce"
            /\ warned_users' = Put(warned_users, t.m.user, warnings)
            /\ warned_in' = [warned_in EXCEPT ![t.m.user] = Append(@, t.m.chat)]
            /\ tasks' = IF warnings >= BanThreshold
                         THEN [tasks EXCEPT ![slot] =
                                 [t EXCEPT !.pc = "ban_enforce", !.warnings = warnings]]
                         ELSE [tasks EXCEPT ![slot] = IdleTask]
            /\ UNCHANGED <<message_counts, mod_settings, now, handled, spaced>>
            /\ UNCHANGED <<dispatcher_vars, responder_vars, evals, process_vars>>

(* After ban_chat_member and the announcement: del self.warned_users[user_id]
   when the announcement went out, the exception otherwise *)
AfterBanEnforce ==
    \E slot \in InFlight, announced \in BOOLEAN :
        LET t == tasks[slot]
        IN  /\ t.pc = "ban_enforce"
            /\ warned_users' = IF announced THEN Del(warned_users, t.m.user)
                                ELSE warned_users
            /\ warned_in' = IF announced THEN [warned_in EXCEPT ![t.m.user] = << >>]
                             ELSE warned_in
            /\ tasks' = [tasks EXCEPT ![slot] = IdleTask]
            /\ UNCHANGED <<message_counts, mod_settings, now, handled, spaced>>
            /\ UNCHANGED <<dispatcher_vars, responder_vars, evals, process_vars>>

(* After the awaits of the spam branch or of the forward branch: return *)
AfterEnforce ==
    \E slot \in InFlight :
        /\ tasks[slot].pc \in {"spam_enforce", "forward_delete"}
        /\ tasks' = [tasks EXCEPT ![slot] = IdleTask]
        /\ UNCHANGED <<moderation_vars, dispatcher_vars, responder_vars, evals, warned_in, process_vars>>

LoopNext ==
    \/ UpdateArrives
    \/ AfterLookup
    \/ AfterLinkEnforce
    \/ AfterBanEnforce
    \/ AfterEnforce
    \/ FetchModSettings

LoopSpec == Init /\ [][LoopNext]_vars

(* The event loop with the clock and the broadcast job: scheduled_post_job
   runs on the same loop, between two blocks of an evaluation.  One advance
   of the clock and one broadcast cycle, at any point of the run. *)
ClockAdvance == now = 0 /\ Tick

BroadcastCycle == cycles = 0 /\ ScheduledPostJob

LedgerNext ==
    \/ evals < LedgerEvals /\ UpdateArrives
    \/ AfterLookup
    \/ AfterLinkEnforce
    \/ AfterBanEnforce
    \/ AfterEnforce
    \/ FetchModSettings
    \/ ClockAdvance
    \/ BroadcastCycle

LedgerSpec == Init /\ [][LedgerNext]_vars

(* The backend lists a post with a null content, before the first cycle *)
ScheduleMalformedPost ==
    /\ cycles = 0
    /\ MalformedPost.id \notin pending
    /\ pending' = pending \cup {MalformedPost.id}
    /\ UNCHANGED <<delivered, marks, outbound, cycles, last_fetch>>
    /\ UNCHANGED <<moderation_vars, responder_vars, loop_vars, process_vars>>

(* One poll cycle against a backend that may list a malformed post *)
PayloadNext == SchedulePost \/ ScheduleMalformedPost \/ BroadcastCycle

PayloadSpec == Init /\ [][PayloadNext]_vars

----------------------------------------------------------------------------
(* Reading a result of moderate_message *)

Ops(calls) == {calls[i].op : i \in DOMAIN calls}

(* The positions of the reports of one event type *)
EventsAt(calls, event) ==
    {i \in DOMAIN calls : calls[i].op = "report_to_backend" /\ calls[i].event = event}

Warnings(wu, user) == IF user \in DOMAIN wu THEN wu[user] ELSE 0
Window(mc, user) == IF user \in DOMAIN mc THEN mc[user] ELSE <<>>

(* The message is a link violation under the current settings *)
LinkViolation(m) == ~mod_settings.allow_links /\ LinkMatch(m.text)

(* The result records one more warning for the sender: the counter is one
   higher, or the ban path removed the entry *)
WarningRecorded(r, m) ==
    LET n == Warnings(warned_users, m.user) + 1
    IN  \/ Warnings(r.warned_users, m.user) = n
        \/ n >= 3 /\ m.user \notin DOMAIN r.warned_users

(* The sender's window holds more timestamps than the limit: any further
   rate-checked message at this instant is over the limit *)
OverLimit(user) ==
    Len(Window(message_counts, user)) >= mod_settings.max_messages_per_minute

----------------------------------------------------------------------------
(* C1: every link-matching message of a non-privileged sender, with
   allow_links false, takes the link path: the delete is attempted, a warning
   is recorded through warn_user_internal and moderate_message returns True,
   whatever the sender's rate window holds and whether or not the message is
   a forward; the rate window is not touched and no mute is issued. *)
C1_LinkPathAlways ==
    \A m \in Messages : \A fail \in FaultsOf(m, "member") :
        LinkViolation(m) =>
            LET r == Eval(m, "member", fail)
            IN  /\ "delete_message" \in Ops(r.calls)
                /\ WarningRecorded(r, m)
                /\ r.ret = "True"
                /\ r.message_counts = message_counts
                /\ "restrict_chat_member" \notin Ops(r.calls)

(* C2: a sender the lookup reports as administrator or owner is never
   moderated: moderate_message returns False, issues no call, and leaves
   message_counts and warned_users as they were, for any message content. *)
C2_PrivilegedUntouched ==
    \A m \in Messages, lookup \in {"administrator", "creator"} :
      \A fail \in FaultsOf(m, lookup) :
        LET r == Eval(m, lookup, fail)
        IN  /\ r.ret = "False"
            /\ r.calls = <<>>
            /\ r.message_counts = message_counts
            /\ r.warned_users = warned_users

(* C2 witness: the settings forbid links and
   forwards, the sender is at the rate limit, and a forwarded link message
   that a member would be punished for is let through for an administrator. *)
C2_Witness ==
    /\ handled < MaxMsgs
    /\ \E m \in Messages :
        /\ LinkViolation(m) /\ m.forward
        /\ ~mod_settings.allow_forwards
        /\ OverLimit(m.user)
        /\ Eval(m, "member", {}).ret = "True"
        /\ Eval(m, "creator", {}).ret = "False"

(* C3: the third call of warn_user_internal for a user that started with no
   entry (two warnings on record, no ban in between) issues the ban, and when
   the call returns the user has no entry in warned_users; the entries of the
   other users are as before. *)
C3_ThirdWarningBansAndClears ==
    \A user \in Users, chat \in Chats, fail \in FaultSets :
        Warnings(warned_users, user) = 2 =>
            LET w == WarnUserInternal(warned_users, chat, user, fail)
            IN  /\ \E i \in DOMAIN w.calls :
                       /\ w.calls[i].op = "ban_chat_member"
                       /\ w.calls[i].user = user
                       /\ w.calls[i].chat = chat
                /\ ~w.raised =>
                       /\ user \notin DOMAIN w.warned_users
                       /\ \A other \in Users \ {user} :
                              Warnings(w.warned_users, other) = Warnings(warned_users, other)

(* C3 witness: three messages were moderated, none of them rate-checked, and
   no entry is left: one user was warned three times and the third warning
   cleared the entry. *)
C3_Witness ==
    /\ handled = 3
    /\ message_counts = << >>
    /\ warned_users = << >>

(* C4: on the third link violation of a non-admin sender exactly one
   user_banned event is reported, no user_warned event is reported, and the
   ban call precedes the user_banned event. *)
C4_ThirdViolationEvents ==
    \A m \in Messages : \A fail \in FaultsOf(m, "member") :
        (LinkViolation(m) /\ Warnings(warned_users, m.user) = 2) =>
            LET r == Eval(m, "member", fail)
                banned == EventsAt(r.calls, "user_banned")
            IN  /\ Cardinality(banned) = 1
                /\ EventsAt(r.calls, "user_warned") = {}
                /\ \E i \in DOMAIN r.calls :
                       /\ r.calls[i].op = "ban_chat_member"
                       /\ \A j \in banned : i < j

(* C5: the first and the second warning of a user report exactly one
   user_warned event that carries the running count, issue no ban, report no
   user_banned event and leave the counter at that count. *)
C5_FirstAndSecondWarning ==
    \A m \in Messages, lookup \in {"member"} :
      \A fail \in FaultsOf(m, lookup) :
        (LinkViolation(m) /\ Warnings(warned_users, m.user) \in {0, 1}) =>
            LET r == Eval(m, lookup, fail)
                n == Warnings(warned_users, m.user) + 1
                warned == EventsAt(r.calls, "user_warned")
            IN  /\ Cardinality(warned) = 1
                /\ \A i \in warned :
                       /\ r.calls[i].n = n
                       /\ r.calls[i].user = m.user
                       /\ r.calls[i].chat = m.chat
                /\ "ban_chat_member" \notin Ops(r.calls)
                /\ EventsAt(r.calls, "user_banned") = {}
                /\ r.warned_users = Put(warned_users, m.user, n)

(* C5 witness: a user has two warnings on record, so a first and a second
   warning were recorded and the counter was left at the running count. *)
C5_Witness ==
    \E user \in Users :
        /\ user \in DOMAIN warned_users
        /\ warned_users[user] = 2
        /\ handled = 2

(* C6, as claimed: when the role lookup fails no moderation action is taken:
   no call is issued, and neither ledger changes. *)
C6_LookupErrorSuppresses ==
    \A m \in Messages : \A fail \in FaultsOf(m, "error") :
        LET r == Eval(m, "error", fail)
        IN  /\ r.ret = "False"
            /\ r.calls = <<>>
            /\ r.message_counts = message_counts
            /\ r.warned_users = warned_users

(* C6, amended: when the role lookup fails the sender is moderated as a
   non-privileged sender: a link violation is deleted and warned and returns
   other than False; any other message is rate-checked, its arrival time is
   stored, and it is deleted when over the limit or a forbidden forward. *)
C6_LookupErrorModerated ==
    \A m \in Messages : \A fail \in FaultsOf(m, "error") :
        LET r == Eval(m, "error", fail)
        IN  IF LinkViolation(m)
            THEN /\ "delete_message" \in Ops(r.calls)
                 /\ WarningRecorded(r, m)
                 /\ r.ret # "False"
            ELSE /\ r.checked
                 /\ Window(r.message_counts, m.user) # <<>>
                 /\ r.message_counts[m.user][Len(r.message_counts[m.user])] = now
                 /\ (r.spam \/ (m.forward /\ ~mod_settings.allow_forwards))
                        <=> ("delete_message" \in Ops(r.calls) /\ r.ret = "True")

(* C6 witness: a warning is on record, and a further link violation whose
   sender could not be looked up is deleted and warned all the same. *)
C6_Witness ==
    /\ handled < MaxMsgs
    /\ \E m \in Messages :
        /\ LinkViolation(m)
        /\ Warnings(warned_users, m.user) = 1
        /\ Eval(m, "error", {}).ret = "True"
        /\ Eval(m, "error", {}).warned_users[m.user] = 2

(* The stored timestamps of a window that lie in the trailing 60 seconds *)
InTrailingMinute(window, t) ==
    {i \in DOMAIN window : t - window[i] < 60}

(* C7: a non-link message of a non-privileged sender has its arrival time
   appended to the sender's window and is spam exactly when the number of
   stored timestamps in the trailing 60 seconds, this one included, is
   greater than max_messages_per_minute; every mute is of 5 minutes,
   whatever mute_duration_minutes says. *)
C7_SpamIffTrailingMinuteOver ==
    \A m \in Messages : \A fail \in FaultsOf(m, "member") :
        ~LinkViolation(m) =>
            LET r == Eval(m, "member", fail)
                w == Window(r.message_counts, m.user)
            IN  /\ r.checked
                /\ w # <<>> /\ w[Len(w)] = now
                /\ r.spam <=> (Cardinality(InTrailingMinute(w, now))
                                  > mod_settings.max_messages_per_minute)
                /\ \A i \in DOMAIN r.calls :
                       r.calls[i].op = "restrict_chat_member" => r.calls[i].n = 5

(* C8, as claimed: the number of timestamps check_spam counts toward one
   decision never exceeds max_messages_per_minute + 1. *)
C8_CountAtMostLimitPlusOne ==
    \A m \in Messages, lookup \in {"member", "error"} :
        LET r == Eval(m, lookup, {})
        IN  r.checked => r.count <= mod_settings.max_messages_per_minute + 1

(* C8, amended: the number of timestamps counted toward one decision is the
   length of the window left by the call, at least 1 and at most one more
   than the number stored for the user before the call; the limit does not
   cap it. *)
C8_CountAtMostStoredPlusOne ==
    \A m \in Messages, lookup \in {"member", "error"} :
        LET r == Eval(m, lookup, {})
        IN  r.checked =>
              /\ r.count = Len(Window(r.message_counts, m.user))
              /\ r.count >= 1
              /\ r.count <= Len(Window(message_counts, m.user)) + 1

(* C8 witness: the sender already has limit + 1 timestamps in the window (the
   limit was exceeded) and the next message is counted as limit + 2. *)
C8_Witness ==
    /\ handled < MaxMsgs
    /\ \E m \in Messages :
        /\ Len(Window(message_counts, m.user)) = mod_settings.max_messages_per_minute + 1
        /\ Eval(m, "member", {}).checked
        /\ Eval(m, "member", {}).count = mod_settings.max_messages_per_minute + 2

(* C9: after every check_spam call no stored timestamp of the sender is more
   than 60 seconds older than the time of the call, however old it is. *)
C9_OldTimestampsDropped ==
    \A m \in Messages :
        LET r == Eval(m, "member", {})
            w == Window(r.message_counts, m.user)
        IN  r.checked => \A i \in DOMAIN w : now - w[i] <= 60

(* C10: with max_messages_per_minute >= 1, a user whose rate-checked
   messages each arrive 61 seconds after the one before is never over the
   limit: check_spam answers False every time. *)
C10_SpacedNeverSpam ==
    \A m \in Messages, lookup \in {"member", "error"} :
        LET r == Eval(m, lookup, {})
        IN  ( /\ r.checked
              /\ mod_settings.max_messages_per_minute >= 1
              /\ spaced[m.user] >= 0
              /\ (Newest(m.user) >= 0 => now - Newest(m.user) = 61) )
            => ~r.spam

(* C10 witness: the limit is 1, a user has sent two messages 61 seconds
   apart, 61 more seconds have passed, and the third is not spam. *)
C10_Witness ==
    /\ handled = 2
    /\ mod_settings.max_messages_per_minute = 1
    /\ \E m \in Messages :
        /\ spaced[m.user] = 2
        /\ now = 122
        /\ Newest(m.user) = 61
        /\ Eval(m, "member", {}).checked
        /\ ~Eval(m, "member", {}).spam

----------------------------------------------------------------------------
(* The number of calls of one operation in a call sequence *)
CountOps(calls, op) == Cardinality({i \in DOMAIN calls : calls[i].op = op})

(* C11: a forwarded message of a non-privileged sender that has no link match
   and that check_spam does not find over the limit is deleted and nothing
   else (one delete call, True returned, no warning recorded, no mute, no
   ban) when allow_forwards is false, and is let through (False returned, no
   call) when allow_forwards is true. *)
C11_ForwardDeleteOnly ==
    \A m \in Messages : \A fail \in FaultsOf(m, "member") :
        LET r == Eval(m, "member", fail)
        IN  (m.forward /\ ~LinkMatch(m.text) /\ ~r.spam) =>
              IF ~mod_settings.allow_forwards
              THEN /\ r.ret = "True"
                   /\ Len(r.calls) = 1
                   /\ r.calls[1].op = "delete_message"
                   /\ r.calls[1].chat = m.chat
                   /\ r.warned_users = warned_users
              ELSE /\ r.ret = "False"
                   /\ r.calls = <<>>
                   /\ r.warned_users = warned_users

(* C11 witness: forwards are forbidden, the sender has an earlier timestamp on
   record but is not over the limit, and a forwarded message without a link
   is deleted and nothing else. *)
C11_Witness ==
    /\ handled < MaxMsgs
    /\ ~mod_settings.allow_forwards
    /\ \E m \in Messages :
        /\ m.forward /\ ~LinkMatch(m.text)
        /\ Window(message_counts, m.user) # <<>>
        /\ ~Eval(m, "member", {}).spam
        /\ Eval(m, "member", {}).ret = "True"
        /\ Ops(Eval(m, "member", {}).calls) = {"delete_message"}

(* C12: the checks of one evaluation run in the order privilege, link, rate,
   forward and stop at the first match.  A privileged sender gets nothing; a
   link violation is never rate-checked or muted; a message that reaches the
   rate check is never warned, and when it is over the limit it gets the spam
   outcome (one delete attempt, then the 5-minute mute) even when it is a
   forbidden forward; no evaluation attempts the delete twice. *)
C12_FixedOrderFirstMatch ==
    \A m \in Messages, lookup \in Lookups :
      \A fail \in FaultsOf(m, lookup) :
        LET r == Eval(m, lookup, fail)
            linkOps == {"send_notice", "delete_notice", "ban_chat_member", "send_ban_notice"}
            rateOps == {"restrict_chat_member", "send_mute_notice"}
        IN  /\ CountOps(r.calls, "delete_message") <= 1
            /\ lookup \in {"administrator", "creator"} =>
                   /\ r.calls = <<>> /\ ~r.checked
                   /\ r.warned_users = warned_users
            /\ (lookup \in {"member", "error"} /\ LinkViolation(m)) =>
                   /\ ~r.checked
                   /\ r.message_counts = message_counts
                   /\ Ops(r.calls) \cap rateOps = {}
                   /\ EventsAt(r.calls, "user_muted") = {}
            /\ (lookup \in {"member", "error"} /\ ~LinkViolation(m)) =>
                   /\ r.checked
                   /\ r.warned_users = warned_users
                   /\ Ops(r.calls) \cap linkOps = {}
                   /\ EventsAt(r.calls, "user_warned") \cup EventsAt(r.calls, "user_banned") = {}
                   /\ r.spam =>
                          /\ r.ret = "True"
                          /\ CountOps(r.calls, "delete_message") = 1
                          /\ r.calls[1].ok =>
                                 \E i \in DOMAIN r.calls :
                                     /\ r.calls[i].op = "restrict_chat_member"
                                     /\ r.calls[i].n = 5
                   /\ ~r.spam => Ops(r.calls) \cap rateOps = {}

(* C12 witness: forwards are forbidden, the sender is at the limit, and a
   forwarded message without a link is muted, not merely deleted. *)
C12_Witness ==
    /\ handled < MaxMsgs
    /\ ~mod_settings.allow_forwards
    /\ \E m \in Messages :
        /\ m.forward /\ ~LinkViolation(m)
        /\ OverLimit(m.user)
        /\ Eval(m, "member", {}).spam
        /\ "restrict_chat_member" \in Ops(Eval(m, "member", {}).calls)
        /\ Eval(m, "member", {}).ret = "True"

----------------------------------------------------------------------------
(* Reading the calls of a poll cycle *)

PostOf(id) == CHOOSE post \in {PostTable[i] : i \in DOMAIN PostTable} : post.id = id

SendOps == {"send_message", "send_photo"}

SendsOf(calls, id) == {i \in DOMAIN calls : calls[i].op \in SendOps /\ calls[i].post = id}
MarksOf(calls, id) == {i \in DOMAIN calls : calls[i].op = "mark_executed" /\ calls[i].post = id}
ReportsOf(calls, id, event) ==
    {i \in DOMAIN calls : /\ calls[i].op = "report_to_backend"
                          /\ calls[i].post = id /\ calls[i].event = event}

(* The chats a cycle sends a post to, in the order of the sends *)
SendChats(calls, id) ==
    LET sel == SelectSeq(calls, LAMBDA c : c.op \in SendOps /\ c.post = id)
    IN  [i \in 1..Len(sel) |-> sel[i].chat]

(* C13: in a cycle whose fetch succeeds, each fetched post gets exactly one
   mark-executed call, issued after all the sends of that post, one send per
   target, whatever the outcome of each send: also when every send fails and
   when the post has no target. *)
C13_MarkedOncePerPost ==
    \A down \in SUBSET Groups, mark_fail \in SUBSET pending, sink \in BOOLEAN :
        LET calls == Cycle("200", down, mark_fail, sink)
        IN  \A id \in pending :
                /\ Cardinality(MarksOf(calls, id)) = 1
                /\ Cardinality(SendsOf(calls, id)) = Len(PostOf(id).target_groups)
                /\ \A i \in MarksOf(calls, id), j \in SendsOf(calls, id) : j < i

(* C13 witness: one cycle has run; the post without targets and the post
   whose two sends both failed were each marked once. *)
C13_Witness ==
    /\ cycles = 1
    /\ marks["p1"] = 1 /\ marks["p2"] = 1
    /\ delivered[<<"p1", "g1">>] = 0 /\ delivered[<<"p1", "g2">>] = 0

(* C14: in one fan-out every target of the post is attempted exactly once,
   in the order of target_groups, whichever sends fail. *)
C14_EveryTargetAttempted ==
    \A down \in SUBSET Groups, mark_fail \in SUBSET pending, sink \in BOOLEAN :
        LET calls == Cycle("200", down, mark_fail, sink)
        IN  \A id \in pending : SendChats(calls, id) = PostOf(id).target_groups

(* C14 witness: in the one cycle run so far the send to the first target of
   p1 failed and the second target received the post. *)
C14_Witness ==
    /\ cycles = 1
    /\ marks["p1"] = 1
    /\ delivered[<<"p1", "g1">>] = 0 /\ delivered[<<"p1", "g2">>] = 1

(* C15: for each post of a cycle there are as many post_sent reports as sends
   that succeeded and as many error reports as sends that failed; the report
   follows its send and carries the post id and the target; with one failing
   and one succeeding target there is one of each. *)
C15_ReportPerSend ==
    \A down \in SUBSET Groups, mark_fail \in SUBSET pending, sink \in BOOLEAN :
        LET calls == Cycle("200", down, mark_fail, sink)
            okSends(id) == {i \in SendsOf(calls, id) : calls[i].ok}
            badSends(id) == {i \in SendsOf(calls, id) : ~calls[i].ok}
        IN  \A id \in pending :
                /\ Cardinality(ReportsOf(calls, id, "post_sent")) = Cardinality(okSends(id))
                /\ Cardinality(ReportsOf(calls, id, "error")) = Cardinality(badSends(id))
                /\ \A i \in badSends(id) :
                       /\ i + 1 \in ReportsOf(calls, id, "error")
                       /\ calls[i + 1].chat = calls[i].chat
                /\ \A i \in okSends(id) :
                       /\ i + 1 \in ReportsOf(calls, id, "post_sent")
                       /\ calls[i + 1].chat = calls[i].chat
                /\ (id = "p1" /\ Cardinality(down) = 1) =>
                       /\ Cardinality(ReportsOf(calls, id, "post_sent")) = 1
                       /\ Cardinality(ReportsOf(calls, id, "error")) = 1

(* C15 witness: the one cycle run so far dispatched p1 alone; the first
   target received it, the second failed: two sends, two reports, one mark. *)
C15_Witness ==
    /\ cycles = 1
    /\ outbound = 5
    /\ marks["p1"] = 1
    /\ delivered[<<"p1", "g1">>] = 1 /\ delivered[<<"p1", "g2">>] = 0

(* C16: a cycle whose fetch fails, by an exception of the transport or by a
   non-200 answer, issues no further call (no send, no report, no
   mark-executed) and changes nothing, neither at the backend nor in the
   bot; it leaves no backoff behind: a later cycle whose fetch succeeds sends
   every pending post to all its targets. *)
C16_FailedFetchAborts ==
    /\ [][ (cycles' = cycles + 1 /\ last_fetch' \in {"transport_error", "500"}) =>
              /\ outbound' = outbound
              /\ UNCHANGED <<pending, delivered, marks>>
              /\ UNCHANGED <<message_counts, warned_users, mod_settings>> ]_vars
    /\ [](last_fetch \in {"transport_error", "500"} =>
              \A id \in pending :
                  SendChats(Cycle("200", {}, {}, TRUE), id) = PostOf(id).target_groups)

(* C16 witness: the only cycle so far failed at the fetch with two posts
   pending; nothing was sent, reported or marked. *)
C16_Witness ==
    /\ cycles = 1
    /\ last_fetch = "500"
    /\ pending = {"p1", "p3"}
    /\ outbound = 0

(* C17: a post whose mark-executed call failed is still listed, and the next
   cycle sends it to all its targets again, those that received it included. *)
C17_RedeliveredToAll ==
    \A down \in SUBSET Groups, mark_fail \in SUBSET pending, sink \in BOOLEAN :
        LET calls == Cycle("200", down, mark_fail, sink)
        IN  \A id \in pending :
                marks[id] >= 1 => SendChats(calls, id) = PostOf(id).target_groups

(* C17 witness: both targets of p1 have received it twice, p1 is still
   pending: its mark-executed call failed in each of the two cycles. *)
C17_Witness ==
    /\ "p1" \in pending
    /\ marks["p1"] = 2
    /\ delivered[<<"p1", "g1">>] = 2 /\ delivered[<<"p1", "g2">>] = 2

----------------------------------------------------------------------------
(* Reading a handled update *)

(* The handler has run on the update in hand *)
Handled == update # NoUpdate /\ verdict # "pending"

(* The text the responder searches *)
Searched == MessageText(update)

(* The bot is addressed: the update replies to a message of the bot, or the
   searched text holds the bot's handle *)
Addressed ==
    \/ update.reply_to_bot
    \/ Contains(Searched, <<"@", "e", "a", "r", "n", "q", "u", "e", "s", "t", "b", "o", "t">>)

(* The positions of the knowledge-base keys that occur in the searched text *)
KeysFound == {i \in DOMAIN KnowledgeBase : Contains(Searched, KnowledgeBase[i].chars)}

(* The number of keyword phrases of topic i that occur in the searched text *)
TopicScore(i) ==
    Cardinality({j \in DOMAIN KeywordsMap[i].keywords :
                    Contains(Searched, KeywordsMap[i].keywords[j])})

(* C18: when the bot is not addressed and moderation let the message
   through, the reply is the template of the first knowledge-base key, in
   the order of the knowledge base, that is a substring of the lowercased
   text, and it is sent only when the text holds '?', 'how', 'what' or
   'where'; otherwise nothing is sent.  At most one reply per message. *)
C18_FirstKeyOnQuestion ==
    (Handled /\ verdict = "False" /\ ~Addressed) =>
        LET question == \E q \in { <<"?">>, <<"h", "o", "w">>, <<"w", "h", "a", "t">>,
                                    <<"w", "h", "e", "r", "e">> } : Contains(Searched, q)
        IN  /\ Len(replies) <= 1
            /\ IF question /\ KeysFound # {}
               THEN \E i \in KeysFound :
                        /\ \A j \in KeysFound : i <= j
                        /\ replies = << [op |-> "reply_text",
                                         template |-> KnowledgeBase[i].key] >>
               ELSE replies = << >>

(* C18 witness: the text "What offerwall", not addressed to the bot, was
   answered with the offerwall template: the marker is found in the lowered
   text, and offerwall comes before offer in the knowledge base. *)
C18_Witness ==
    /\ Handled /\ verdict = "False" /\ ~Addressed
    /\ update.m.text = <<"What", " ", "offerwall">>
    /\ replies = << [op |-> "reply_text", template |-> "offerwall"] >>

(* C19: when the bot is addressed and moderation let the message through,
   exactly one reply is sent: the fixed capability summary exactly when every
   topic scores zero, otherwise the template of the topic with the highest
   keyword count, the first such topic in table order. *)
C19_BestTopicFirstOnTie ==
    (Handled /\ verdict = "False" /\ Addressed) =>
        /\ Len(replies) = 1
        /\ replies[1].op = "reply_text"
        /\ IF \A i \in DOMAIN KeywordsMap : TopicScore(i) = 0
           THEN replies[1].template = "capabilities"
           ELSE \E i \in DOMAIN KeywordsMap :
                    /\ replies[1].template = KeywordsMap[i].key
                    /\ TopicScore(i) > 0
                    /\ \A j \in DOMAIN KeywordsMap : TopicScore(j) <= TopicScore(i)
                    /\ \A j \in 1..(i - 1) : TopicScore(j) < TopicScore(i)

(* C19 witness: "@EarnQuestBot get paid free" scores one for withdraw, for
   faucet and for earn; the reply is the withdraw template, the first of
   the three. *)
C19_Witness ==
    /\ Handled /\ verdict = "False" /\ Addressed
    /\ update.m.text = <<"@", "EarnQuestBot", " ", "get", " ", "paid", " ", "free">>
    /\ TopicScore(1) = 1 /\ TopicScore(2) = 1
    /\ replies = << [op |-> "reply_text", template |-> "withdraw"] >>

(* C20: every inbound group message is evaluated by moderate_message before
   the responder runs, and a message moderation actioned gets no reply. *)
C20_ModeratedBeforeResponder ==
    Handled =>
        /\ verdict \in {"True", "False", "raised"}
        /\ verdict = "True" => replies = << >>
        /\ replies # << >> => verdict = "False"

----------------------------------------------------------------------------
(* The life of the process *)

(* os.environ.get('TELEGRAM_BOT_TOKEN'), EarnQuestBot() *)
ReadEnvironment ==
    /\ phase = "main"
    /\ \E tok \in {"set", "missing"} : token' = tok
    /\ phase' = "loop"
    /\ UNCHANGED <<attempt, exit_status, waits, last_outcome,
                   user_sessions, commands, endpoint_calls, last_reply>>
    /\ UNCHANGED <<moderation_vars, dispatcher_vars, responder_vars, loop_vars>>

(* One pass of the retry loop up to run_polling: bot.run() calls
   setup_handlers; when that answers False run() returns, the loop breaks
   and the script ends *)
BotRun ==
    /\ phase = "loop"
    /\ \E built \in BOOLEAN :
          IF SetupHandlers(token, built)
          THEN /\ phase' = "polling"
               /\ UNCHANGED exit_status
          ELSE /\ phase' = "ended"
               /\ exit_status' = 0
    /\ UNCHANGED <<token, attempt, waits, last_outcome,
                   user_sessions, commands, endpoint_calls, last_reply>>
    /\ UNCHANGED <<moderation_vars, dispatcher_vars, responder_vars, loop_vars>>

(* run_polling ends.  What run() lets out reaches the except branch of the
   retry loop: wait and go round again on a conflict that is not the last
   attempt, sys.exit(1) otherwise; when run() returns, the loop breaks. *)
PollingEnds ==
    /\ phase = "polling"
    /\ \E outcome \in PollOutcomes :
          /\ last_outcome' = outcome
          /\ IF RunRaises(outcome)
             THEN IF Retried(outcome, attempt)
                  THEN /\ waits' = Append(waits, (attempt + 1) * BackoffStep)
                       /\ attempt' = attempt + 1
                       /\ phase' = "loop"
                       /\ UNCHANGED exit_status
                  ELSE /\ phase' = "ended"
                       /\ exit_status' = 1
                       /\ UNCHANGED <<waits, attempt>>
             ELSE /\ phase' = "ended"
                  /\ exit_status' = 0
                  /\ UNCHANGED <<waits, attempt>>
    /\ UNCHANGED <<token, user_sessions, commands, endpoint_calls, last_reply>>
    /\ UNCHANGED <<moderation_vars, dispatcher_vars, responder_vars, loop_vars>>

(* receive_password: the session is stored on a 200 answer, with whatever
   token the answer holds *)
Login ==
    /\ phase = "polling"
    /\ commands < MaxCommands
    /\ \E user \in Users, ok \in BOOLEAN, tok \in Tokens :
          user_sessions' = IF ok THEN Put(user_sessions, user, [token |-> tok])
                           ELSE user_sessions
    /\ commands' = commands + 1
    /\ UNCHANGED <<token, phase, attempt, exit_status, waits, last_outcome,
                   endpoint_calls, last_reply>>
    /\ UNCHANGED <<moderation_vars, dispatcher_vars, responder_vars, loop_vars>>

(* One account command of one user *)
AccountRequest ==
    /\ phase = "polling"
    /\ commands < MaxCommands
    /\ \E user \in Users, cmd \in AccountCommands, answered \in BOOLEAN :
          LET r == AccountCommand(user_sessions, user, cmd, answered)
          IN  /\ endpoint_calls' = endpoint_calls + Len(r.calls)
              /\ last_reply' = r.reply
    /\ commands' = commands + 1
    /\ UNCHANGED <<token, phase, attempt, exit_status, waits, last_outcome,
                   user_sessions>>
    /\ UNCHANGED <<moderation_vars, dispatcher_vars, responder_vars, loop_vars>>

ProcessNext ==
    \/ ReadEnvironment
    \/ BotRun
    \/ PollingEnds
    \/ Login
    \/ AccountRequest

ProcessSpec == Init /\ [][ProcessNext]_vars

----------------------------------------------------------------------------
(* The positions of the calls of one kind *)
CallsAt(calls, op) == {i \in DOMAIN calls : calls[i].op = op}

(* C21: the warning counter is keyed by the user id alone: it counts the
   warnings on record whatever chats they were given in, and a link violation
   of a sender with two warnings on record, in whatever chats, is answered by
   exactly one ban, issued in the chat of that message and in no other chat;
   with fewer warnings on record no ban is issued. *)
C21_CountedAcrossChats ==
    /\ DOMAIN warned_users \subseteq Users
    /\ \A u \in Users : Warnings(warned_users, u) = Len(warned_in[u])
    /\ \A m \in Messages :
          LinkViolation(m) =>
            LET r    == Eval(m, "member", {})
                bans == CallsAt(r.calls, "ban_chat_member")
            IN  /\ \A i \in DOMAIN r.calls : r.calls[i].chat = m.chat
                /\ IF Len(warned_in[m.user]) >= BanThreshold - 1
                   THEN Cardinality(bans) = 1
                   ELSE bans = {}

(* Two warnings given in chat c1, the third violation in chat c2: the ban is
   pending in c2 *)
C21_Witness ==
    \E slot \in Slots :
        /\ tasks[slot].pc = "ban_enforce"
        /\ tasks[slot].m.chat = "c2"
        /\ warned_in[tasks[slot].m.user] = <<"c1", "c1", "c2">>

(* C22: the warning counter of a user changes only in warn_user_internal:
   one higher when the link branch of an evaluation of that user records a
   warning, removed when the ban path of that user's evaluation completes.
   No other step (settings refresh, broadcast cycle, spam or forward
   handling, the clock) changes it, and every recorded warning raises it by
   exactly one. *)
C22_LedgerChangesOnlyInWarn ==
    [][ /\ \A u \in Users :
             Warnings(warned_users', u) # Warnings(warned_users, u) =>
               \E slot \in Slots :
                   /\ tasks[slot].pc \in {"link_enforce", "ban_enforce"}
                   /\ tasks[slot].m.user = u
                   /\ tasks'[slot].pc # tasks[slot].pc
                   /\ IF tasks[slot].pc = "link_enforce"
                      THEN Warnings(warned_users', u) = Warnings(warned_users, u) + 1
                      ELSE u \notin DOMAIN warned_users'
        /\ \A slot \in Slots :
             (tasks[slot].pc = "link_enforce" /\ tasks'[slot] # tasks[slot]) =>
               Warnings(warned_users', tasks[slot].m.user)
                 = Warnings(warned_users, tasks[slot].m.user) + 1
      ]_vars

(* Two warnings on record for a user after a day has passed, a refresh has
   changed the settings and a broadcast cycle has run, while a forward of
   that user is being deleted *)
C22_Witness ==
    \E slot \in Slots :
        /\ tasks[slot].pc = "forward_delete"
        /\ Warnings(warned_users, tasks[slot].m.user) = 2
        /\ now >= SecondsPerDay
        /\ cycles = 1
        /\ mod_settings.max_messages_per_minute = 1

----------------------------------------------------------------------------
(* The enforcement calls of an evaluation and the reports that follow them *)
EnforcementOps == {"delete_message", "restrict_chat_member", "ban_chat_member"}

ReportedAfter(calls, i) ==
    \E j \in DOMAIN calls :
        /\ j > i
        /\ calls[j].op = "report_to_backend"
        /\ calls[j].ok
        /\ calls[j].user = calls[i].user
        /\ calls[j].chat = calls[i].chat

(* C23: every enforcement action that an evaluation carries out (a message
   deleted, a member muted, a member banned) is followed, in that
   evaluation, by an event reported to the sink that carries the user and
   the chat.  [Fails: the deletion of a disallowed forward reports nothing.] *)
C23_EveryEnforcementReported ==
    \A m \in Messages :
        LET r == Eval(m, "member", {})
        IN  \A i \in DOMAIN r.calls :
                r.calls[i].op \in EnforcementOps => ReportedAfter(r.calls, i)

(* The calls of the try block of the link branch *)
LinkTryOps == {"delete_message", "send_notice", "sleep", "delete_notice"}

(* The positions where the escalation ledger shows in the calls: its
   user_warned report, or its ban *)
LedgerAt(calls) ==
    EventsAt(calls, "user_warned") \cup CallsAt(calls, "ban_chat_member")

(* C24: for every link violation of a non-privileged sender the escalation
   ledger is invoked exactly once (one warning recorded, one user_warned
   report or one ban), after the delete attempt and the notice step, also
   when the delete, the notice or the removal of the notice fails. *)
C24_LedgerOncePerViolation ==
    \A m \in Messages :
      \A fail \in {{}, {"delete_message"}, {"send_notice"}, {"delete_notice"}} :
        LinkViolation(m) =>
            LET r == Eval(m, "member", fail)
            IN  /\ WarningRecorded(r, m)
                /\ Cardinality(LedgerAt(r.calls)) = 1
                /\ CallsAt(r.calls, "delete_message") # {}
                /\ \A i \in LedgerAt(r.calls) : \A j \in DOMAIN r.calls :
                       r.calls[j].op \in LinkTryOps => j < i

(* A handled user with two warnings on record: the violation whose delete
   fails still reaches the ledger, which bans and clears *)
C24_Witness ==
    \E m \in Messages :
        /\ LinkViolation(m)
        /\ handled >= 2
        /\ Warnings(warned_users, m.user) = 2
        /\ LET r == Eval(m, "member", {"delete_message"})
           IN  /\ Len(LinkTry(m, {"delete_message"})) = 1
               /\ m.user \notin DOMAIN r.warned_users
               /\ CallsAt(r.calls, "ban_chat_member") # {}

(* C25: on a spam verdict the mute is applied and announced even if deleting
   the message fails.  [Fails: the delete, the mute and the announcement
   share one try block, a failed delete skips the rest.] *)
C25_MuteEvenIfDeleteFails ==
    \A m \in Messages :
        ~LinkViolation(m) =>
            LET r == Eval(m, "member", {"delete_message"})
            IN  r.spam => /\ CallsAt(r.calls, "restrict_chat_member") # {}
                          /\ CallsAt(r.calls, "send_mute_notice") # {}

----------------------------------------------------------------------------
(* C26: while an enforcement action of one evaluation is pending (its
   outbound calls, the fixed delay), a group message of another user in
   another chat can be taken up for evaluation.  [Fails: the updates are
   processed one after another, the next one waits for the handler.] *)
C26_OthersEvaluatedWhilePending ==
    \A slot \in InFlight :
        (/\ tasks[slot].pc \in EnforcementPcs
         /\ evals < MaxEvals
         /\ InFlight # Slots) =>
            ENABLED (\E m \in Messages :
                        /\ m.user # tasks[slot].m.user
                        /\ m.chat # tasks[slot].m.chat
                        /\ StartEvaluation(m, "member"))

(* C27: whatever runs at the suspension points of an evaluation, no update
   of the warning counter is lost: the counter is the number of warnings on
   record, an evaluation that is about to clear the entry at the ban finds
   the entry there, holding the count it recorded itself, so that the
   clearing discards no warning of another evaluation and never meets a
   missing entry. *)
C27_NoLostLedgerUpdate ==
    /\ \A u \in Users : Warnings(warned_users, u) = Len(warned_in[u])
    /\ \A slot \in InFlight :
          tasks[slot].pc = "ban_enforce" =>
            /\ tasks[slot].m.user \in DOMAIN warned_users
            /\ warned_users[tasks[slot].m.user] = tasks[slot].warnings

(* A second ban of the same user is pending: the first ban path did not
   clear the entry (its announcement failed), the next violation of that
   user counted on from it *)
C27_Witness ==
    \E slot \in Slots :
        /\ tasks[slot].pc = "ban_enforce"
        /\ tasks[slot].warnings = BanThreshold + 1
        /\ evals = MaxEvals

(* The values of the settings an evaluation can meet: the defaults, overlaid
   by whole answers of the settings endpoint *)
Overlay(base, upd) ==
    [k \in DOMAIN base |-> IF k \in DOMAIN upd THEN upd[k] ELSE base[k]]

Snapshots ==
    LET one == {Overlay(DefaultSettings, u) : u \in SettingsUpdates}
        two == UNION {{Overlay(b, u) : u \in SettingsUpdates} : b \in one}
    IN  {DefaultSettings} \cup one \cup two

(* C28: the policy values one evaluation has read all come from one whole
   snapshot of the settings, also when the refresh runs while the evaluation
   is suspended, and the settings an evaluation can read are never a
   half-applied refresh. *)
C28_ReadsFromOneSnapshot ==
    /\ mod_settings \in Snapshots
    /\ \A slot \in InFlight :
          \E snap \in Snapshots :
              \A k \in DOMAIN tasks[slot].reads : tasks[slot].reads[k] = snap[k]

(* An evaluation that read all three values is suspended in the forward
   branch, and a refresh has changed the settings since *)
C28_Witness ==
    \E slot \in Slots :
        /\ tasks[slot].pc = "forward_delete"
        /\ DOMAIN tasks[slot].reads =
              {"allow_links", "max_messages_per_minute", "allow_forwards"}
        /\ ~tasks[slot].reads["allow_links"]
        /\ mod_settings.allow_links

----------------------------------------------------------------------------
(* C29: a refresh that gets a 200 answer overwrites exactly the keys present
   in the answer and keeps the value every other key had before the refresh;
   a refresh that fails (transport error, non-200 answer) leaves the
   settings as they were. *)
C29_RefreshMergesFetchedKeys ==
    \A fetch \in FetchOutcomes, upd \in SettingsUpdates :
        LET after == FetchedSettings(mod_settings, fetch, upd)
        IN  IF fetch = "200"
            THEN /\ DOMAIN after = DOMAIN mod_settings \cup DOMAIN upd
                 /\ \A k \in DOMAIN upd : after[k] = upd[k]
                 /\ \A k \in DOMAIN mod_settings \ DOMAIN upd : after[k] = mod_settings[k]
            ELSE after = mod_settings

(* The settings hold values that are not the defaults (links allowed, mute
   of 10 minutes), and an answer that omits those keys keeps them *)
C29_Witness ==
    /\ mod_settings.allow_links
    /\ mod_settings.mute_duration_minutes = 10
    /\ \E upd \in SettingsUpdates :
          /\ "allow_links" \notin DOMAIN upd
          /\ FetchedSettings(mod_settings, "200", upd).allow_links
          /\ FetchedSettings(mod_settings, "500", upd) = mod_settings

(* The calls of an evaluation or of a cycle without the outcome of each call *)
Issued(calls) == [i \in DOMAIN calls |-> [calls[i] EXCEPT !.ok = TRUE]]

(* The outcomes of the calls other than the reports *)
Outcomes(calls) ==
    [i \in DOMAIN calls |-> calls[i].op = "report_to_backend" \/ calls[i].ok]

(* C30: a failure of the event sink is never propagated: an evaluation whose
   reports fail returns the same verdict, leaves the same warning counters
   and rate windows and issues the same calls (the same ban) as when the
   reports succeed, and a broadcast cycle whose reports fail issues the same
   sends to the same targets and the same mark-executed calls. *)
C30_SinkFailureNotPropagated ==
    /\ \A m \in Messages, lookup \in Lookups :
          LET good == Eval(m, lookup, {})
              bad  == Eval(m, lookup, {"report_to_backend"})
          IN  /\ bad.ret = good.ret
              /\ bad.warned_users = good.warned_users
              /\ bad.message_counts = good.message_counts
              /\ Issued(bad.calls) = Issued(good.calls)
              /\ Outcomes(bad.calls) = Outcomes(good.calls)
    /\ \A down \in SUBSET Groups, mark_fail \in {{}, PostIds} :
          LET good == FetchScheduledPosts(PostIds, "200", down, mark_fail, TRUE)
              bad  == FetchScheduledPosts(PostIds, "200", down, mark_fail, FALSE)
          IN  /\ Issued(bad) = Issued(good)
              /\ Outcomes(bad) = Outcomes(good)
              /\ CallsAt(bad, "mark_executed") # {}

(* A user with two warnings on record: with the sink down, the next link
   violation still bans and clears the counter, its reports failing *)
C30_Witness ==
    \E m \in Messages :
        /\ LinkViolation(m)
        /\ Warnings(warned_users, m.user) = 2
        /\ LET bad == Eval(m, "member", {"report_to_backend"})
           IN  /\ bad.ret = "True"
               /\ m.user \notin DOMAIN bad.warned_users
               /\ \E i \in EventsAt(bad.calls, "user_banned") : ~bad.calls[i].ok

----------------------------------------------------------------------------
(* The messages of the scenario: a text with http://x.com, not a forward *)
HttpMessages ==
    [user : Users, chat : Chats, text : {<<"see", " ", "HTTP://", "x", ".", "com">>},
     forward : {FALSE}]

(* The first link violation of a sender is answered by a deletion, a warning
   count of 1, one user_warned report and no ban *)
FirstWarning(m, lookup) ==
    LET r == Eval(m, lookup, {})
    IN  /\ r.ret = "True"
        /\ \E i \in CallsAt(r.calls, "delete_message") : r.calls[i].ok
        /\ Warnings(r.warned_users, m.user) = 1
        /\ Cardinality(EventsAt(r.calls, "user_warned")) = 1
        /\ CallsAt(r.calls, "ban_chat_member") = {}
        /\ EventsAt(r.calls, "user_banned") = {}

(* The evaluation does nothing *)
Untouched(m, lookup) ==
    LET r == Eval(m, lookup, {})
    IN  /\ r.ret = "False"
        /\ r.calls = << >>
        /\ r.warned_users = warned_users
        /\ r.message_counts = message_counts

(* C31: with allow_links false, a text containing http://x.com posted in a
   group by a member who is not an administrator and has no warning on
   record is deleted, the sender's warning count becomes 1, exactly one
   user_warned event is reported and no ban is issued; the same text posted
   by an administrator or by the owner is left alone. *)
C31_MemberLinkFirstWarning ==
    \A m \in HttpMessages :
        (~mod_settings.allow_links /\ Warnings(warned_users, m.user) = 0) =>
            /\ LinkMatch(m.text)
            /\ FirstWarning(m, "member")
            /\ Untouched(m, "administrator")
            /\ Untouched(m, "creator")

(* C31 as stated: the sender of the scenario is an administrator. *)
C31_AdminLinkFirstWarning ==
    \A m \in HttpMessages :
        (~mod_settings.allow_links /\ Warnings(warned_users, m.user) = 0) =>
            FirstWarning(m, "administrator")

(* One link violation has been handled: one user has one warning, the other
   none, no rate window was touched *)
C31_Witness ==
    /\ handled = 1
    /\ ~mod_settings.allow_links
    /\ message_counts = << >>
    /\ \E u \in Users :
          /\ Warnings(warned_users, u) = 1
          /\ \A v \in Users \ {u} : Warnings(warned_users, v) = 0

(* C32: when TELEGRAM_BOT_TOKEN is missing the process ends with a non-zero
   exit status.  [Fails: setup_handlers answers False, run() returns, the
   retry loop breaks and the script ends with status 0.] *)
C32_MissingTokenExitsNonZero ==
    (phase = "ended" /\ token = "missing") => exit_status # 0

(* C33: a conflict that ends the polling on the first or the second attempt
   makes the retry loop wait 10 s times the number of the attempt and run
   the bot again; the process ends on a conflict only at the third attempt.
   [Fails: run() catches the error, the loop never sees it.] *)
C33_ConflictRetried ==
    [][ (/\ phase = "polling"
         /\ phase' # "polling"
         /\ last_outcome' = "conflict"
         /\ attempt < MaxRetries - 1) =>
            /\ phase' = "loop"
            /\ attempt' = attempt + 1
            /\ waits' = Append(waits, (attempt + 1) * BackoffStep) ]_vars

(* C34: an account command (balance, referral, tasks, leaderboard, support
   ticket) of a user without a session token calls no endpoint and is
   answered by a login prompt.  [Fails for the support ticket: the answer is
   the message-received text.] *)
C34_NoTokenLoginPrompt ==
    \A user \in Users, cmd \in AccountCommands, answered \in BOOLEAN :
        GetUserToken(user_sessions, user) = "" =>
            LET r == AccountCommand(user_sessions, user, cmd, answered)
            IN  /\ r.calls = << >>
                /\ r.reply \in LoginPrompts

----------------------------------------------------------------------------
(* C35: after every evaluation each entry of warned_users holds 1 or 2,
   also when a call of the ban path fails.  [Fails: when the announcement of
   the ban fails the entry keeps the 3 and goes on counting.] *)
C35_CounterOneOrTwo ==
    \A u \in DOMAIN warned_users : warned_users[u] \in {1, 2}

(* moderate_message on the message again, from the ledger another evaluation
   left *)
Again(r, m) ==
    ModerateMessage(r.message_counts, r.warned_users, mod_settings, now, m, "member", {})

(* C36: on the third warning, when ban_chat_member fails, the announcement
   and the user_banned report are still issued and the counter is cleared:
   the sender stays with a fresh counter, its next two violations are warned
   and not banned, the third one is the next ban attempt. *)
C36_FailedBanStillClears ==
    \A m \in Messages :
        (LinkViolation(m) /\ Warnings(warned_users, m.user) = BanThreshold - 1) =>
            LET r  == Eval(m, "member", {"ban_chat_member"})
                r1 == Again(r, m)
                r2 == Again(r1, m)
                r3 == Again(r2, m)
            IN  /\ \E i \in CallsAt(r.calls, "ban_chat_member") : ~r.calls[i].ok
                /\ \E i \in EventsAt(r.calls, "user_banned") : r.calls[i].ok
                /\ r.ret = "True"
                /\ m.user \notin DOMAIN r.warned_users
                /\ Warnings(r1.warned_users, m.user) = 1
                /\ CallsAt(r1.calls, "ban_chat_member") = {}
                /\ Warnings(r2.warned_users, m.user) = 2
                /\ CallsAt(r2.calls, "ban_chat_member") = {}
                /\ CallsAt(r3.calls, "ban_chat_member") # {}

(* Two violations of a user are on record and its third violation meets a
   failing ban_chat_member *)
C36_Witness ==
    \E m \in Messages :
        /\ LinkViolation(m)
        /\ handled >= 2
        /\ Warnings(warned_users, m.user) = 2
        /\ LET r == Eval(m, "member", {"ban_chat_member"})
           IN  /\ Len(r.calls) > 0
               /\ \A i \in CallsAt(r.calls, "ban_chat_member") : ~r.calls[i].ok
               /\ r.warned_users = Del(warned_users, m.user)

----------------------------------------------------------------------------
(* C38: each evaluation touches at most one of the two ledgers: a message
   handled as a link violation leaves every rate window as it was, the
   sender's included, and a message that reaches the rate check (spam,
   forward or allowed outcome) leaves warned_users as it was. *)
C38_OneLedgerPerEvaluation ==
    \A m \in Messages, lookup \in {"member", "administrator"} :
      \A fail \in FaultsOf(m, lookup) :
        LET r == Eval(m, lookup, fail)
        IN  /\ r.message_counts = message_counts \/ r.warned_users = warned_users
            /\ (LinkViolation(m) /\ ~IsPrivileged(lookup)) =>
                  /\ ~r.checked
                  /\ r.message_counts = message_counts
                  /\ r.warned_users # warned_users
            /\ (~LinkViolation(m) /\ ~IsPrivileged(lookup)) =>
                  /\ r.checked
                  /\ r.message_counts # message_counts
                  /\ r.warned_users = warned_users

(* Two evaluations of one user have ended, one as a link violation and one
   with a rate check: one warning and one timestamp on record *)
C38_Witness ==
    /\ handled = 2
    /\ \E u \in Users :
          /\ Warnings(warned_users, u) = 1
          /\ Len(Window(message_counts, u)) = 1
          /\ \A v \in Users \ {u} :
                Warnings(warned_users, v) = 0 /\ Window(message_counts, v) = << >>

----------------------------------------------------------------------------
(* The text of the update holds the bot's handle *)
HandleIn(u) ==
    Contains(MessageText(u), <<"@", "e", "a", "r", "n", "q", "u", "e", "s", "t", "b", "o", "t">>)

(* The text updates of senders that are not privileged *)
MemberTexts == {u \in Updates : u.kind = "text" /\ u.lookup = "member"}

(* C37: with allow_links false, a group text of a non-privileged user that
   holds the bot's @handle is handled as a link violation (the delete is
   attempted, a warning is recorded through the ledger, moderate_message
   does not answer False) and gets no reply from the responder; the only
   updates of such users that reach the responder in addressed mode are
   replies to a message of the bot whose text holds no handle. *)
C37_MentionIsLinkViolation ==
    ~mod_settings.allow_links =>
      \A u \in MemberTexts :
        LET named == HandleIn(u)
        IN  (named \/ u.reply_to_bot) =>
              \A fail \in FaultsOf(u.m, u.lookup) :
                LET r == ModerateMessage(message_counts, warned_users, mod_settings,
                                         now, u.m, u.lookup, fail)
                    h == HandleUpdate(message_counts, warned_users, mod_settings,
                                      now, u, fail)
                IN  /\ named =>
                        /\ CallsAt(r.calls, "delete_message") # {}
                        /\ WarningRecorded(r, u.m)
                        /\ h.verdict \in {"True", "raised"}
                        /\ h.replies = << >>
                    /\ h.verdict = "False" =>
                        /\ ~named
                        /\ h.replies = IntelligentResponse(MessageText(u))

(* A member's text with the bot's handle has been handled with links
   disallowed: deleted as a link, a warning on record, no reply *)
C37_Witness ==
    /\ Handled
    /\ update \in MemberTexts
    /\ HandleIn(update)
    /\ ~update.reply_to_bot
    /\ ~mod_settings.allow_links
    /\ verdict = "True"
    /\ replies = << >>
    /\ Warnings(warned_users, update.m.user) >= 1

----------------------------------------------------------------------------
(* The well-formed posts that are pending *)
WellFormed == pending \cap PostIds

(* The position of a post in the listing *)
ListedAt(id) == CHOOSE i \in DOMAIN PostTable : PostTable[i].id = id

(* C39: in one poll cycle the fetched posts are processed one after another
   in the order of the listing (all the calls of a post come before the
   calls of the posts listed after it), and a post whose processing ends by
   an error before its mark-executed call (a null content) gets no call at
   all and changes nothing for the others: every other pending post is sent
   to all its targets and marked once, whichever sends and marks fail. *)
C39_ErrorDoesNotStopCycle ==
    \A down \in SUBSET Groups, mark_fail \in SUBSET pending, sink \in BOOLEAN :
        LET calls == Cycle("200", down, mark_fail, sink)
        IN  /\ \A i \in DOMAIN calls : calls[i].post \in WellFormed
            /\ \A id \in WellFormed :
                  /\ SendChats(calls, id) = PostOf(id).target_groups
                  /\ Cardinality(MarksOf(calls, id)) = 1
            /\ \A i, j \in DOMAIN calls :
                  ListedAt(calls[i].post) < ListedAt(calls[j].post) => i < j
            /\ calls = FetchScheduledPosts(WellFormed, "200", down, mark_fail, sink)

(* The one cycle met the malformed post first and then p1 and p3: both were
   sent to all their targets and marked, the malformed one is still listed *)
C39_Witness ==
    /\ cycles = 1
    /\ last_fetch = "200"
    /\ pending = {"p0"}
    /\ marks["p1"] = 1 /\ marks["p3"] = 1
    /\ delivered[<<"p1", "g1">>] = 1 /\ delivered[<<"p1", "g2">>] = 1
    /\ delivered[<<"p3", "g2">>] = 1

====
